---- MODULE Spec2Model ----
(***************************************************************************)
(* Key-value cluster adapter of backend/server.js: the module-level        *)
(* connection handle (redisCluster) and readiness flag                     *)
(* (isRedisOperational), initRedis with its discovery, connection          *)
(* attempts, stability polling and smoke test, the single-node fallback    *)
(* of the listen callback, the manual reconnect route and the command      *)
(* wrapper executeRedisCommand.                                            *)
(*                                                                         *)
(* One action is one run of JavaScript between two suspension points       *)
(* (an await on I/O or a timer, an event or a timer callback).  An await   *)
(* on an already settled promise only yields to the microtask queue, so    *)
(* the code after it belongs to the same action.                           *)
(***************************************************************************)
EXTENDS Integers, Sequences, FiniteSets, TLC

\* ---------------------------------------------------------------- bounds
\* connection objects that are alive (held, awaited or polled) at one time
MaxConns == 3
\* maxWaitTimeMs / checkIntervalMs of waitForClusterReady (600000 / 5000 in
\* the code), scaled down: time is counted in ticks of checkIntervalMs
MaxWaitTicks == 2

\* master nodes of the cluster
NumMasters == 2
\* rows the relational table can hold (values of the AUTO_INCREMENT id)
MaxSqlId == 2
\* ids randomUUID() can return
MaxUuids == 2
\* requests served in one behaviour of the request handlers
MaxRequests == 3

\* ------------------------------------------------------ program constants
maxRetries == 3
maxAttempts == 3
maxStabilityChecks == 2
TotalNodes == 6
TotalSlots == 16384

NULL == 0
ConnIds == 1..MaxConns

\* initRedis is run once by the listen callback ("boot") and once per
\* POST /api/redis/reconnect request; one request is in flight at a time
\* (Next), or two (OverlapNext)
Reconnects == {"r1", "r2"}
InitIds == {"boot"} \cup Reconnects

\* the real cluster: "up" (every node answers, all slots served, commands
\* succeed, connections stay ready) or "degraded" (anything can happen)
ClusterStates == {"degraded", "up"}

\* the commands of testRedisOperations, in order (ping goes with set/get, the
\* deletion of the test keys with the user-like operations: it cannot fail)
SmokeTests == <<"setget", "hash", "scan", "info", "user">>
AllSmokeTests == {SmokeTests[k] : k \in 1..Len(SmokeTests)}
\* the commands of initRedisFallback's test (ping goes with set/get)
FallbackTests == <<"setget", "del">>

VARIABLES
    cluster,             \* environment: state of the real cluster
    redisCluster,        \* module-level handle: NULL or a connection id
    isRedisOperational,  \* module-level readiness flag
    conn,                \* the connection objects and the closures of their attempts
    init,                \* the runs of initRedis
    boot,                \* the listen callback
    cmd,                 \* one call of executeRedisCommand
    exited,              \* process.exit(1) was called
    hist,                \* history: what happened (read by the properties only)
    kv,                  \* key-value store: the user:<id> hashes
    sql,                 \* relational store: the rows of table users
    req                  \* the HTTP requests in flight

\* the adapter and the stores
adapterVars == <<cluster, redisCluster, isRedisOperational, conn, init, boot, cmd, exited, hist>>
storeVars == <<kv, sql, req>>
vars == <<cluster, redisCluster, isRedisOperational, conn, init, boot, cmd, exited, hist,
          kv, sql, req>>

FreeConn ==
    [status |-> "free", kind |-> "none", owner |-> "none", listening |-> FALSE,
     readyOnce |-> FALSE, stable |-> FALSE, count |-> 0, timer |-> FALSE,
     promise |-> "none", streak |-> {}, stableOk |-> FALSE, tested |-> {},
     broken |-> FALSE]

IdleInit ==
    [pc |-> "idle", attempt |-> 0, elapsed |-> 0, rounds |-> 0,
     op |-> 0, opened |-> 0, delay |-> 0, failure |-> "none",
     allAnswered |-> FALSE]

IdleCmd ==
    [pc |-> "idle", attempt |-> 0, invocations |-> 0, waits |-> 0,
     result |-> "none", lastErr |-> "none", delay |-> 0]

\* ------------------------------------------------------- pure functions
Min(a, b) == IF a < b THEN a ELSE b

RECURSIVE Pow2(_)
Pow2(n) == IF n = 0 THEN 1 ELSE 2 * Pow2(n - 1)

\* faulty variant: the exponent is the attempt number
RetryDelayFromZero(attempt) == Min(1000 * Pow2(attempt), 5000)

\* line 706: Math.min(1000 * Math.pow(2, attempt - 1), 5000)
RetryDelay(attempt) == Min(1000 * Pow2(attempt - 1), 5000)

\* faulty variant: the same delay after every failed attempt
ConnectDelayFlat(attempt) == 2000

\* line 604: attempt * 2000
ConnectDelay(attempt) == attempt * 2000

\* line 51-53
isRedisReady ==
    /\ redisCluster # NULL
    /\ conn[redisCluster].status = "ready"
    /\ isRedisOperational

\* DEGRADED: a connection is held and the adapter reports not ready
Degraded == redisCluster # NULL /\ ~isRedisReady

\* A CLUSTER NODES reply is a sequence of lines
\*   <id> <ip:port@cport> <flags> <master> <ping-sent> <pong-recv>
\*   <config-epoch> <link-state> <slot> <slot> ...
\* A line is kept here as its role and fail flags, the number of runs of
\* digits in the fields before the slots, and its slot tokens: <<a, b>> for
\* "a-b" and <<a>> for a single slot.
\* the address, the two timestamps and the epoch hold at least one run of
\* digits each, the port and the cluster port one each
HeaderRuns == 5

SlotLists ==
    {<<>>,
     << <<0, 8191>> >>,
     << <<8192, 16383>> >>,
     << <<8192, 16379>> >>,
     << <<0, 8190>>, <<8191>> >>}

NodeLines ==
    {[role |-> ro, fail |-> f, runs |-> HeaderRuns, slots |-> sl] :
        ro \in {"master"}, f \in BOOLEAN, sl \in SlotLists}
    \cup {[role |-> "slave", fail |-> f, runs |-> HeaderRuns, slots |-> <<>>] :
              f \in BOOLEAN}

Lo(t) == t[1]
Hi(t) == t[Len(t)]

\* no slot is listed by two lines
SlotsDisjoint(l1, l2) ==
    \A a \in 1..Len(l1.slots), b \in 1..Len(l2.slots) :
        Hi(l1.slots[a]) < Lo(l2.slots[b]) \/ Hi(l2.slots[b]) < Lo(l1.slots[a])

\* the replies of a cluster of two nodes
Replies ==
    {r \in NodeLines \X NodeLines : SlotsDisjoint(r[1], r[2])}

\* line 238-247: what one match of /(\d+-\d+|\d+)/g adds to the total
MatchAdds(t) == IF Len(t) = 2 THEN t[2] - t[1] + 1 ELSE 1

RECURSIVE SlotTokensAdd(_)
SlotTokensAdd(slots) ==
    IF slots = <<>> THEN 0 ELSE MatchAdds(Head(slots)) + SlotTokensAdd(Tail(slots))

\* line 235-249: the matches of one line are all its runs of digits, those
\* of the fields before the slots included; each of these adds 1
LineAdds(l) == l.runs + SlotTokensAdd(l.slots)

\* line 229-231: line.includes('master') && !line.includes('fail')
MasterNotFailed(l) == l.role = "master" /\ ~l.fail

\* line 226-250, 339-363: totalSlotsAssigned / slotsAssigned of a reply
RECURSIVE totalSlotsAssigned(_)
totalSlotsAssigned(reply) ==
    IF reply = <<>> THEN 0
    ELSE (IF MasterNotFailed(Head(reply)) THEN LineAdds(Head(reply)) ELSE 0)
         + totalSlotsAssigned(Tail(reply))

\* what a discovery pass over the seed nodes can find: ok is the number of
\* nodes that answer the ping with cluster_state:ok (diagnose: clusterOkNodes,
\* waitForClusterReady: readyNodes, with allNodesReady iff no node failed),
\* slots the slot count of the first such node (line 226-250, 339-363)
Probes(cl) ==
    IF cl = "up"
    THEN {[ok |-> TotalNodes, slots |-> TotalSlots]}
    ELSE {[ok |-> 0, slots |-> 0],
          [ok |-> TotalNodes, slots |-> TotalSlots \div 2],
          [ok |-> TotalNodes - 1, slots |-> TotalSlots],
          [ok |-> TotalNodes, slots |-> TotalSlots]}

\* history: every configured seed node answered the ping and reported
\* cluster_state:ok in the pass (line 186, 212, 256, 261, 268: allNodesReady)
AllNodesOk(p) == p.ok = TotalNodes

\* line 436-437: isClusterReady of initRedis, from diagnoseRedisCluster
DiagnoseReady(p) == p.ok > 0 /\ p.slots >= TotalSlots

\* line 272: a round of waitForClusterReady finds the cluster ready
RoundReady(p) ==
    /\ p.ok = TotalNodes        \* allNodesReady
    /\ p.ok > 0                 \* readyNodes > 0
    /\ p.slots >= TotalSlots

\* faulty variant: one more round once the time is up
WaitLoopInclusive(elapsed) == elapsed <= MaxWaitTicks

\* line 183: while (Date.now() - startTime < maxWaitTimeMs)
WaitLoopCondition(elapsed) == elapsed < MaxWaitTicks

\* faulty variant: every failed attempt counts as a connection issue
IsConnectionIssueAlways(kind, status) == TRUE

\* line 694-696: the error counts as a connection issue
IsConnectionIssue(kind, status) == kind = "topology" \/ status # "ready"

\* faulty variant: one attempt more than maxRetries
LastRetryLate(attempt) == attempt > maxRetries

\* line 701 / line 600: the attempt was the last one
LastRetry(attempt) == attempt = maxRetries
LastAttempt(attempt) == attempt = maxAttempts

\* ------------------------------------------------------------- helpers
\* a connection object nothing refers to any more is garbage: its slot is
\* reused (disconnected, no timer of its closure pending, its promise settled)
Dead(cn, c, handle) ==
    /\ cn[c].status = "end"
    /\ c # handle
    /\ ~cn[c].timer
    /\ cn[c].promise # "pending"

\* the closure of a settled attempt whose connection is no longer held is
\* read by nothing but its own polling timer (count, timer)
Stale(cn, c, handle) == c # handle /\ cn[c].promise # "pending"

Reap(cn, handle) ==
    [c \in ConnIds |->
        IF Dead(cn, c, handle) THEN FreeConn
        ELSE IF Stale(cn, c, handle)
             THEN [cn[c] EXCEPT !.stable = FALSE, !.streak = {}, !.stableOk = FALSE,
                                !.tested = {}, !.broken = FALSE]
             ELSE cn[c]]

FreeIds(cn) == {c \in ConnIds : cn[c].status = "free"}
NewId(cn) == CHOOSE c \in FreeIds(cn) : \A d \in FreeIds(cn) : c <= d

\* history: connection c stops being ready; the attempts whose polling has
\* counted a 'ready' of the held connection and waits for the next poll
\* have seen an interruption (broken)
Interrupted(cn, c) ==
    [d \in ConnIds |->
        IF c = redisCluster /\ cn[d].promise = "pending" /\ cn[d].count > 0
        THEN [cn[d] EXCEPT !.broken = TRUE] ELSE cn[d]]

\* removeAllListeners() and disconnect() on the held connection
Disconnected(cn, removeListeners) ==
    IF redisCluster = NULL THEN cn
    ELSE [cn EXCEPT ![redisCluster].status = "end",
                    ![redisCluster].listening =
                        IF removeListeners THEN FALSE ELSE @,
                    ![redisCluster].readyOnce =
                        IF removeListeners THEN FALSE ELSE @]

\* a continuation that runs in the microtask queue is pending: no timer,
\* event or request is served before it has run
MicrotaskPending ==
    \/ boot.pc = "initRedis" /\ init["boot"].pc \in {"done", "failed"}
    \/ \E r \in Reconnects : init[r].pc \in {"done", "failed"}
    \/ cmd.pc = "done"

Running == ~exited /\ ~MicrotaskPending

\* ---------------------------------------------------------- the stores
Masters == 1..NumMasters
SqlIds == 1..MaxSqlId

\* ids of key-value records: the ids of relational rows copied by
\* mysql-to-redis (digits only) and the values of randomUUID()
NumId(k) == [num |-> TRUE, n |-> k]
Uuid(k) == [num |-> FALSE, n |-> k]
Uuids == {Uuid(k) : k \in 1..MaxUuids}
KvIds == {NumId(k) : k \in SqlIds} \cup Uuids

\* line 1253: /^\d+$/.test(user.id)
IsNumeric(id) == id.num

Emails == {"a", "b"}
\* no value: undefined in a request body, NULL in a row
None == "none"
\* what a request body carries besides the email: name, and phone (which
\* stands for phone and address, handled alike everywhere), given or left out
Fields == {[name |-> "x", phone |-> "p"], [name |-> "y", phone |-> None]}
\* no record; at is created_at, 0 when the record has none
NoRec == [name |-> "", email |-> "", phone |-> "", at |-> 0]
\* the request bodies with a name and an email
Recs == {[name |-> f.name, email |-> e, phone |-> f.phone, at |-> 0] :
           f \in Fields, e \in Emails}

\* faulty variant: a value that is left out is written as it is
OrEmptyKept(v) == v

\* line 1075, 1114, 1151, 1260: phone || ''
OrEmpty(v) == IF v \in {None, ""} THEN "" ELSE v

\* keys are split at the colon; the key of a user record: `user:${id}`
UserKey(id) == <<"user", id>>
\* a key of another namespace (the smoke test's test:hash:<time>)
TestKey == <<"test", Uuid(0)>>
\* line 118-126: the key and the hash of test 6 of testRedisOperations,
\* `user:test-${randomUUID()}` (kept apart from kv: hist.testUser tells
\* whether it is stored)
TestId == Uuid(0)
TestUserKey == UserKey(TestId)
TestUserRec == [name |-> "Test User", email |-> "test-user", phone |-> "p", at |-> 1]
\* line 1059: the pattern 'user:*'
UserPattern == <<"user", "*">>

\* faulty variant: the prefix is not compared
MatchesAnyPrefix(pattern, key) == Len(key) >= Len(pattern)

\* MATCH of SCAN for a pattern that ends in its only wildcard: the key
\* starts with what precedes the *
Matches(pattern, key) ==
    /\ Len(key) >= Len(pattern)
    /\ \A k \in 1..(Len(pattern) - 1) : key[k] = pattern[k]

\* the master that owns the hash slot of a key (a fixed spread over the
\* masters)
Owner(key) == ((key[2].n + (IF key[2].num THEN 0 ELSE 1)) % NumMasters) + 1

\* the keys stored, and those stored on master m
StoredKeys(store, tkeys) == {UserKey(id) : id \in {i \in KvIds : store[i] # NoRec}} \cup tkeys
KeysOn(store, tkeys, m) == {k \in StoredKeys(store, tkeys) : Owner(k) = m}

\* history: the id the last DELETE answered 200 for, until a request
\* creates the id again
NoDeleted == [store |-> "none", id |-> Uuid(0)]
DeletedKv(id) == [store |-> "kv", id |-> id]
DeletedSql(k) == [store |-> "sql", id |-> NumId(k)]

\* history: the id and the body of the POST that was answered 201, until a
\* request other than a GET by id arrives
NoPosted == [store |-> "none", id |-> Uuid(0), body |-> NoRec]
PostedTo(store, id, body) == [store |-> store, id |-> id, body |-> body]

\* new Date() and CURRENT_TIMESTAMP: the requests of a behaviour arrive
\* within one tick of the clock, or (hist.timed) each at a later tick than
\* the one before
Now == hist.clock

\* HTTP requests that can be in flight together
Reqs == {1, 2}

IdleReq ==
    [type |-> "none", pc |-> "idle", id |-> Uuid(0), rec |-> NoRec,
     m |-> 0, answered |-> {}, todo |-> {}, rows |-> {},
     dups |-> {}, resp |-> 0, sent |-> FALSE, alone |-> TRUE,
     total |-> 0, success |-> 0, errors |-> 0, log |-> {}]

\* the stores and the requests while the adapter is followed
StoresIdle ==
    /\ kv = [id \in KvIds |-> NoRec]
    /\ sql = [rows |-> [id \in SqlIds |-> NoRec], nextId |-> 1]
    /\ req = [r \in Reqs |-> IdleReq]

TypeOK ==
    /\ cluster \in ClusterStates
    /\ redisCluster \in {NULL} \cup ConnIds
    /\ isRedisOperational \in BOOLEAN
    /\ exited \in BOOLEAN
    /\ \A c \in ConnIds :
         /\ conn[c].status \in {"free", "connecting", "ready", "reconnecting", "end"}
         /\ conn[c].kind \in {"none", "cluster", "single"}
         /\ conn[c].count \in 0..maxStabilityChecks
    /\ \A i \in InitIds :
         init[i].pc \in {"idle", "diagnose", "waiting", "connect", "awaitStable",
                         "smoke", "backoff", "done", "failed"}
    /\ boot.pc \in {"initRedis", "fallbackWait", "fallbackTest", "mysql", "serving"}
    /\ cmd.pc \in {"idle", "try", "backoff", "done"}

Init ==
    /\ cluster \in ClusterStates
    /\ redisCluster = NULL
    /\ isRedisOperational = FALSE
    /\ conn = [c \in ConnIds |-> FreeConn]
    /\ init = [i \in InitIds |->
                 IF i = "boot" THEN [IdleInit EXCEPT !.pc = "diagnose"] ELSE IdleInit]
    /\ boot = [pc |-> "initRedis", op |-> 0, initFailed |-> FALSE,
               fallbackOk |-> FALSE]
    /\ cmd = IdleCmd
    /\ exited = FALSE
    /\ hist = [reconnectRequested |-> FALSE, degradedAtRequest |-> FALSE,
               served |-> 0, deleted |-> NoDeleted, clock |-> 1, logging |-> FALSE,
               posted |-> NoPosted, timed |-> FALSE, blank |-> FALSE,
               overlapped |-> FALSE, reply |-> <<>>, counted |-> 0,
               parsed |-> FALSE, testUser |-> FALSE]
    /\ StoresIdle

\* ------------------------------------------------------------ environment
\* the real cluster changes state (nodes start, fail, slots get assigned)
EnvChange ==
    /\ Running
    /\ \E cl \in ClusterStates \ {cluster} : cluster' = cl
    /\ hist' = [hist EXCEPT !.degradedAtRequest = FALSE]
    /\ UNCHANGED <<redisCluster, isRedisOperational, conn, init, boot, cmd, exited>>
    /\ UNCHANGED storeVars

\* ------------------------------------------------------ slot counting
\* the discovery at start-up has received the CLUSTER NODES reply of the
\* first node that reports cluster_state:ok
CountInit ==
    /\ cluster = "degraded"
    /\ redisCluster = NULL
    /\ isRedisOperational = FALSE
    /\ conn = [c \in ConnIds |-> FreeConn]
    /\ init = [i \in InitIds |->
                 IF i = "boot" THEN [IdleInit EXCEPT !.pc = "diagnose"] ELSE IdleInit]
    /\ boot = [pc |-> "initRedis", op |-> 0, initFailed |-> FALSE,
               fallbackOk |-> FALSE]
    /\ cmd = IdleCmd
    /\ exited = FALSE
    /\ \E r \in Replies :
         hist = [reconnectRequested |-> FALSE, degradedAtRequest |-> FALSE,
                 served |-> 0, deleted |-> NoDeleted, clock |-> 1, logging |-> FALSE,
                 posted |-> NoPosted, timed |-> FALSE, blank |-> FALSE,
                 overlapped |-> FALSE, reply |-> r, counted |-> 0,
                 parsed |-> FALSE, testUser |-> FALSE]
    /\ StoresIdle

\* line 226-250, 339-363: the slots of the reply are counted
CountSlots ==
    /\ ~hist.parsed
    /\ hist.reply # <<>>
    /\ hist' = [hist EXCEPT !.counted = totalSlotsAssigned(hist.reply),
                            !.parsed = TRUE]
    /\ UNCHANGED <<cluster, redisCluster, isRedisOperational, conn, init, boot, cmd,
                   exited>>
    /\ UNCHANGED storeVars

CountSpec == CountInit /\ [][CountSlots]_vars

\* ----------------------------------------------------------- initRedis
\* line 585-607: the catch block of a connection attempt of run i; cn is the
\* connections after the step that threw
InitCatch(i, cn) ==
    /\ conn' = Reap(Disconnected(cn, TRUE), NULL)
    /\ redisCluster' = NULL
    /\ isRedisOperational' = FALSE
    /\ init' = [init EXCEPT ![i].pc = IF LastAttempt(init[i].attempt)
                                      THEN "failed" ELSE "backoff",
                            ![i].delay = IF LastAttempt(init[i].attempt)
                                         THEN 0 ELSE ConnectDelay(init[i].attempt),
                            ![i].failure = IF LastAttempt(init[i].attempt)
                                           THEN "connect" ELSE "none"]

\* line 433-448: diagnoseRedisCluster and the decision to wait
InitDiagnose(i) ==
    /\ Running
    /\ init[i].pc = "diagnose"
    /\ \E p \in Probes(cluster) :
         init' = [init EXCEPT ![i].pc = IF DiagnoseReady(p) THEN "connect" ELSE "waiting",
                              ![i].attempt = IF DiagnoseReady(p) THEN 1 ELSE 0,
                              ![i].allAnswered = DiagnoseReady(p) /\ AllNodesOk(p)]
    /\ UNCHANGED <<cluster, redisCluster, isRedisOperational, conn, boot, cmd, exited, hist>>
    /\ UNCHANGED storeVars

\* line 183-288: one turn of the loop of waitForClusterReady (a discovery
\* round and the wait after it), or its exit on timeout; line 443-445: on
\* false initRedis throws
WaitRound(i) ==
    /\ Running
    /\ init[i].pc = "waiting"
    /\ IF WaitLoopCondition(init[i].elapsed)
       THEN \E p \in Probes(cluster) :
              IF RoundReady(p)
              THEN init' = [init EXCEPT ![i].pc = "connect", ![i].attempt = 1,
                                        ![i].rounds = 0, ![i].elapsed = 0,
                                        ![i].allAnswered = AllNodesOk(p)]
              ELSE \E took \in 1..2 :   \* the wait, and a slow round
                     init' = [init EXCEPT ![i].rounds = @ + 1,
                                          ![i].elapsed = @ + took]
       ELSE init' = [init EXCEPT ![i].pc = "failed", ![i].failure = "coverage"]
    /\ UNCHANGED <<cluster, redisCluster, isRedisOperational, conn, boot, cmd, exited, hist>>
    /\ UNCHANGED storeVars

\* faulty variant: the new connection is created without cleaning up the
\* held one
InitConnectNoCleanup(i) ==
    /\ Running
    /\ init[i].pc = "connect"
    /\ LET cleaned == Reap(conn, NULL)
       IN /\ FreeIds(cleaned) # {}
          /\ LET c == NewId(cleaned)
             IN /\ conn' = [cleaned EXCEPT ![c] =
                              [FreeConn EXCEPT !.status = "connecting", !.kind = "cluster",
                                               !.owner = i, !.listening = TRUE,
                                               !.readyOnce = TRUE, !.promise = "pending"]]
                /\ redisCluster' = c
                /\ init' = [init EXCEPT ![i].pc = "awaitStable", ![i].opened = @ + 1,
                                        ![i].allAnswered = FALSE]
    /\ isRedisOperational' = IF redisCluster # NULL THEN FALSE ELSE isRedisOperational
    /\ UNCHANGED <<cluster, boot, cmd, exited, hist>>
    /\ UNCHANGED storeVars

\* line 451-574: start of a connection attempt: clean up the held
\* connection, create the cluster connection, attach the handlers, arm the
\* 20 s timeout and wait for the stability promise
InitConnect(i) ==
    /\ Running
    /\ init[i].pc = "connect"
    /\ LET cleaned == Reap(Disconnected(conn, TRUE), NULL)
       IN /\ FreeIds(cleaned) # {}
          /\ LET c == NewId(cleaned)
             IN /\ conn' = [cleaned EXCEPT ![c] =
                              [FreeConn EXCEPT !.status = "connecting", !.kind = "cluster",
                                               !.owner = i, !.listening = TRUE,
                                               !.readyOnce = TRUE, !.promise = "pending"]]
                /\ redisCluster' = c
                /\ init' = [init EXCEPT ![i].pc = "awaitStable", ![i].opened = @ + 1,
                                        ![i].allAnswered = FALSE]
    /\ isRedisOperational' = IF redisCluster # NULL THEN FALSE ELSE isRedisOperational
    /\ UNCHANGED <<cluster, boot, cmd, exited, hist>>
    /\ UNCHANGED storeVars

\* line 545-562: the timer callback checkStability of the attempt that
\* created connection c; it reads the module-level handle
CheckStability(c) ==
    /\ Running
    /\ conn[c].timer
    /\ IF redisCluster = NULL
       THEN \* TypeError on null.status in a timer callback: line 1367-1370
            /\ exited' = TRUE
            /\ UNCHANGED <<conn, init>>
       ELSE /\ exited' = exited
            /\ IF conn[redisCluster].status = "ready"
               THEN LET n == conn[c].count + 1
                        wasPending == conn[c].promise = "pending"
                        polled == IF wasPending THEN conn[c].streak \cup {redisCluster}
                                  ELSE {}
                    IN IF n >= maxStabilityChecks
                       THEN LET cn == [conn EXCEPT ![c].count = 0, ![c].stable = TRUE,
                                            ![c].timer = FALSE, ![c].streak = {},
                                            ![c].broken = FALSE,
                                            ![c].promise = IF wasPending THEN "resolved" ELSE @]
                                cn2 == IF wasPending /\ polled = {redisCluster}
                                       THEN [cn EXCEPT ![redisCluster].stableOk = TRUE]
                                       ELSE cn
                            IN /\ conn' = Reap(cn2, redisCluster)
                               /\ init' = IF wasPending
                                          THEN [init EXCEPT ![conn[c].owner].pc = "smoke",
                                                            ![conn[c].owner].op = 1]
                                          ELSE init
                       ELSE /\ conn' = [conn EXCEPT ![c].count = n, ![c].streak = polled]
                            /\ init' = init
               ELSE /\ conn' = [conn EXCEPT ![c].count = 0, ![c].streak = {},
                                            ![c].broken = FALSE]
                    /\ init' = init
    /\ UNCHANGED <<cluster, redisCluster, isRedisOperational, boot, cmd, hist>>
    /\ UNCHANGED storeVars

\* line 56-174, 579-583: one command group of testRedisOperations, issued
\* on the module-level handle; after the last one initRedis raises the flag
SmokeOp(i) ==
    /\ Running
    /\ init[i].pc = "smoke"
    /\ \/ /\ redisCluster # NULL
          /\ conn[redisCluster].status = "ready"
          /\ conn' = [conn EXCEPT ![redisCluster].tested =
                        IF conn[redisCluster].stableOk
                        THEN @ \cup {SmokeTests[init[i].op]} ELSE @]
          /\ IF init[i].op = Len(SmokeTests)
             THEN /\ isRedisOperational' = TRUE
                  /\ init' = [init EXCEPT ![i].pc = "done"]
             ELSE /\ isRedisOperational' = isRedisOperational
                  /\ init' = [init EXCEPT ![i].op = @ + 1]
          /\ redisCluster' = redisCluster
       \/ /\ \/ redisCluster = NULL
             \/ redisCluster # NULL /\ conn[redisCluster].status = "end"
             \/ cluster # "up"
          /\ InitCatch(i, conn)
    /\ UNCHANGED <<cluster, boot, cmd, exited, hist>>
    /\ UNCHANGED storeVars

\* line 604-606: the wait before the next attempt is over.  The wait lasts
\* 2000 ms or more and a polling timer 1000 ms or less: a timer of this run
\* that is due against a null handle fires first
InitBackoffDone(i) ==
    /\ Running
    /\ init[i].pc = "backoff"
    /\ ~(redisCluster = NULL /\ \E c \in ConnIds : conn[c].timer /\ conn[c].owner = i)
    /\ init' = [init EXCEPT ![i].pc = "connect", ![i].attempt = @ + 1, ![i].delay = 0]
    /\ UNCHANGED <<cluster, redisCluster, isRedisOperational, conn, boot, cmd, exited, hist>>
    /\ UNCHANGED storeVars

\* ------------------------------------------------- initRedisFallback
\* line 788-799: the catch block of initRedisFallback (the listeners stay)
FallbackCatch(cn) ==
    /\ conn' = Reap(Disconnected(cn, FALSE), NULL)
    /\ redisCluster' = NULL
    /\ isRedisOperational' = FALSE
    /\ boot' = [boot EXCEPT !.pc = "mysql", !.op = 0, !.fallbackOk = FALSE]

\* line 808-816: initRedis has returned to the listen callback; on failure
\* line 713-768: initRedisFallback creates the single-node connection
BootContinue ==
    /\ ~exited
    /\ boot.pc = "initRedis"
    /\ \/ /\ init["boot"].pc = "done"
          /\ boot' = [boot EXCEPT !.pc = "mysql"]
          /\ init' = [init EXCEPT !["boot"] = [IdleInit EXCEPT !.pc = "done"]]
          /\ UNCHANGED <<redisCluster, conn>>
       \/ /\ init["boot"].pc = "failed"
          /\ FreeIds(conn) # {}
          /\ LET c == NewId(conn)
             IN /\ conn' = [conn EXCEPT ![c] =
                              [FreeConn EXCEPT !.status = "connecting", !.kind = "single",
                                               !.owner = "boot", !.listening = TRUE,
                                               !.readyOnce = TRUE, !.promise = "pending"]]
                /\ redisCluster' = c
          /\ boot' = [boot EXCEPT !.pc = "fallbackWait", !.initFailed = TRUE]
          /\ init' = [init EXCEPT !["boot"] = [IdleInit EXCEPT !.pc = "failed",
                                                    !.failure = init["boot"].failure]]
    /\ UNCHANGED <<cluster, isRedisOperational, cmd, exited, hist>>
    /\ UNCHANGED storeVars

\* line 770-786: one command group of the fallback's test; after the last
\* one initRedisFallback raises the flag
FallbackOp ==
    /\ Running
    /\ boot.pc = "fallbackTest"
    /\ \/ /\ redisCluster # NULL
          /\ conn[redisCluster].status = "ready"
          /\ IF boot.op = Len(FallbackTests)
             THEN /\ isRedisOperational' = TRUE
                  /\ boot' = [boot EXCEPT !.pc = "mysql", !.op = 0, !.fallbackOk = TRUE]
             ELSE /\ isRedisOperational' = isRedisOperational
                  /\ boot' = [boot EXCEPT !.op = @ + 1]
          /\ UNCHANGED <<redisCluster, conn>>
       \/ /\ \/ redisCluster = NULL
             \/ redisCluster # NULL /\ conn[redisCluster].status = "end"
             \/ cluster # "up"
          /\ FallbackCatch(conn)
    /\ UNCHANGED <<cluster, init, cmd, exited, hist>>
    /\ UNCHANGED storeVars

\* line 823-1343: the MySQL connection loop, then the routes are registered
BootServe ==
    /\ Running
    /\ boot.pc = "mysql"
    /\ boot' = [boot EXCEPT !.pc = "serving"]
    /\ UNCHANGED <<cluster, redisCluster, isRedisOperational, conn, init, cmd, exited, hist>>
    /\ UNCHANGED storeVars

\* ------------------------------------------------- connection events
\* the connection reports ready: line 507, the once('ready') listeners of
\* line 565-568 (start of the stability polling) and line 759-762 (fallback)
ConnReady(c) ==
    /\ Running
    /\ conn[c].status \in {"connecting", "reconnecting"}
    /\ IF conn[c].kind = "cluster"
       THEN /\ conn' = [conn EXCEPT ![c].status = "ready", ![c].readyOnce = FALSE,
                                    ![c].timer = IF conn[c].readyOnce THEN TRUE ELSE @]
            /\ boot' = boot
       ELSE LET resolves == conn[c].readyOnce /\ conn[c].promise = "pending"
            IN /\ conn' = [conn EXCEPT ![c].status = "ready", ![c].readyOnce = FALSE,
                                       ![c].promise = IF resolves THEN "resolved" ELSE @]
               /\ boot' = IF resolves
                          THEN [boot EXCEPT !.pc = "fallbackTest", !.op = 1]
                          ELSE boot
    /\ UNCHANGED <<cluster, redisCluster, isRedisOperational, init, cmd, exited, hist>>
    /\ UNCHANGED storeVars

\* the connection is lost and the client starts to reconnect: the 'close'
\* and 'reconnecting' handlers of line 511-521 (the fallback has none)
ConnClose(c) ==
    /\ Running
    /\ conn[c].status = "ready"
    /\ cluster # "up"
    /\ conn' = Interrupted([conn EXCEPT ![c].status = "reconnecting",
                            ![c].stable = IF conn[c].listening /\ conn[c].kind = "cluster"
                                          THEN FALSE ELSE @], c)
    /\ isRedisOperational' = IF conn[c].listening /\ conn[c].kind = "cluster"
                             THEN FALSE ELSE isRedisOperational
    /\ UNCHANGED <<cluster, redisCluster, init, boot, cmd, exited, hist>>
    /\ UNCHANGED storeVars

\* the client gives up: the 'end' handler of line 523-527
ConnEnd(c) ==
    /\ Running
    /\ conn[c].status \in {"connecting", "ready", "reconnecting"}
    /\ cluster # "up"
    /\ conn' = Reap(Interrupted([conn EXCEPT ![c].status = "end",
                                 ![c].stable = IF conn[c].listening /\ conn[c].kind = "cluster"
                                               THEN FALSE ELSE @], c), redisCluster)
    /\ isRedisOperational' = IF conn[c].listening /\ conn[c].kind = "cluster"
                             THEN FALSE ELSE isRedisOperational
    /\ UNCHANGED <<cluster, redisCluster, init, boot, cmd, exited, hist>>
    /\ UNCHANGED storeVars

\* an 'error' event: the handlers of line 497-501 (cluster connection: the
\* flag is lowered and a pending stability promise rejected) and of line
\* 734-737 and 764-767 (fallback)
ConnError(c) ==
    /\ Running
    /\ conn[c].listening
    /\ conn[c].status \in {"connecting", "ready", "reconnecting"}
    /\ cluster # "up"
    /\ IF conn[c].promise = "pending"
       THEN LET cn == [conn EXCEPT ![c].promise = "rejected"]
            IN IF conn[c].kind = "cluster"
               THEN InitCatch(conn[c].owner, cn) /\ boot' = boot
               ELSE FallbackCatch(cn) /\ init' = init
       ELSE /\ isRedisOperational' = FALSE
            /\ UNCHANGED <<redisCluster, conn, init, boot>>
    /\ UNCHANGED <<cluster, cmd, exited, hist>>
    /\ UNCHANGED storeVars

\* faulty variant: a connection to a healthy cluster can take longer than
\* the connection timeout
CanStallAlways(c) == TRUE

\* the stability promise can stay pending although the cluster is up: the
\* polling never started and cannot start any more, or what it polls is gone
CanStall(c) ==
    \/ ~conn[c].timer /\ ~conn[c].readyOnce
    \/ ~conn[c].timer /\ conn[c].status = "end"
    \/ conn[c].timer /\ redisCluster # NULL /\ conn[redisCluster].status = "end"

\* line 538-540 and 749-751: the connection timeout fires while the promise
\* is pending (a connection to a healthy cluster is ready and stable well
\* within the timeout)
ConnectTimeout(c) ==
    /\ Running
    /\ conn[c].promise = "pending"
    /\ cluster # "up" \/ CanStall(c)
    /\ LET cn == [conn EXCEPT ![c].promise = "rejected"]
       IN IF conn[c].kind = "cluster"
          THEN InitCatch(conn[c].owner, cn) /\ boot' = boot
          ELSE FallbackCatch(cn) /\ init' = init
    /\ UNCHANGED <<cluster, cmd, exited, hist>>
    /\ UNCHANGED storeVars

\* --------------------------------------- POST /api/redis/reconnect
\* line 1327-1330: the route calls initRedis
StartReconnect(r) ==
    /\ Running
    /\ boot.pc = "serving"
    /\ init[r].pc = "idle"
    /\ init' = [init EXCEPT ![r].pc = "diagnose"]
    /\ hist' = [hist EXCEPT !.reconnectRequested = TRUE,
                            !.degradedAtRequest = Degraded /\ cluster = "up",
                            !.overlapped = @ \/ \E q \in Reconnects \ {r} :
                                                   init[q].pc # "idle"]
    /\ UNCHANGED <<cluster, redisCluster, isRedisOperational, conn, boot, cmd, exited>>
    /\ UNCHANGED storeVars

\* line 1331-1342: initRedis has returned or thrown, the response is sent
FinishReconnect(r) ==
    /\ ~exited
    /\ init[r].pc \in {"done", "failed"}
    /\ init' = [init EXCEPT ![r] = IdleInit]
    /\ hist' = [hist EXCEPT !.degradedAtRequest = FALSE]
    /\ UNCHANGED <<cluster, redisCluster, isRedisOperational, conn, boot, cmd, exited>>
    /\ UNCHANGED storeVars

\* ------------------------------------------------ executeRedisCommand
ErrorKinds == {"topology", "other"}

\* faulty variant: the guard looks at the connection only, not at the flag
CmdRefusedNoFlag == redisCluster = NULL \/ conn[redisCluster].status # "ready"

\* line 682: the call is refused
CmdRefused == ~isRedisReady

\* line 681-685: a request handler calls executeRedisCommand
CmdStart ==
    /\ Running
    /\ boot.pc = "serving"
    /\ cmd.pc = "idle"
    /\ IF CmdRefused
       THEN cmd' = [IdleCmd EXCEPT !.pc = "done", !.result = "NotReady"]
       ELSE cmd' = [IdleCmd EXCEPT !.pc = "try", !.attempt = 1]
    /\ UNCHANGED <<cluster, redisCluster, isRedisOperational, conn, init, boot, exited, hist>>
    /\ UNCHANGED storeVars

\* line 688-689: commandFn(redisCluster) succeeds and its result is returned
CmdSucceed ==
    /\ Running
    /\ cmd.pc = "try"
    /\ redisCluster # NULL
    /\ conn[redisCluster].status = "ready"
    /\ cmd' = [cmd EXCEPT !.pc = "done", !.result = "ok", !.invocations = @ + 1]
    /\ UNCHANGED <<cluster, redisCluster, isRedisOperational, conn, init, boot, exited, hist>>
    /\ UNCHANGED storeVars

\* line 690-708: commandFn(redisCluster) throws and the catch block runs.
\* With no connection held the catch block itself throws (null.status)
CmdFail(kind) ==
    /\ Running
    /\ cmd.pc = "try"
    /\ kind = "topology" =>
          \/ cluster # "up"
          \/ redisCluster = NULL
          \/ redisCluster # NULL /\ conn[redisCluster].status # "ready"
    /\ IF redisCluster = NULL /\ kind = "other"
       THEN /\ cmd' = [cmd EXCEPT !.pc = "done", !.result = "TypeError", !.lastErr = kind,
                                  !.invocations = @ + 1]
            /\ isRedisOperational' = isRedisOperational
       ELSE /\ isRedisOperational' =
                 IF kind = "topology" \/ IsConnectionIssue(kind, conn[redisCluster].status)
                 THEN FALSE ELSE isRedisOperational
            /\ IF LastRetry(cmd.attempt)
               THEN cmd' = [cmd EXCEPT !.pc = "done", !.result = "error", !.lastErr = kind,
                                       !.invocations = @ + 1]
               ELSE cmd' = [cmd EXCEPT !.pc = "backoff", !.lastErr = kind,
                                       !.invocations = @ + 1,
                                       !.delay = RetryDelay(cmd.attempt)]
    /\ UNCHANGED <<cluster, redisCluster, conn, init, boot, exited, hist>>
    /\ UNCHANGED storeVars

\* line 705-707: the backoff wait is over, next turn of the loop
CmdBackoffDone ==
    /\ Running
    /\ cmd.pc = "backoff"
    /\ cmd' = [cmd EXCEPT !.pc = "try", !.attempt = @ + 1, !.waits = @ + 1]
    /\ UNCHANGED <<cluster, redisCluster, isRedisOperational, conn, init, boot, exited, hist>>
    /\ UNCHANGED storeVars

\* the caller has the result or the error
CmdReturn ==
    /\ ~exited
    /\ cmd.pc = "done"
    /\ cmd' = IdleCmd
    /\ UNCHANGED <<cluster, redisCluster, isRedisOperational, conn, init, boot, exited, hist>>
    /\ UNCHANGED storeVars

\* ---------------------------------------------------------------- Next
Next ==
    \/ EnvChange
    \/ \E i \in InitIds : InitDiagnose(i)
    \/ \E i \in InitIds : WaitRound(i)
    \/ \E i \in InitIds : InitConnect(i)
    \/ \E c \in ConnIds : CheckStability(c)
    \/ \E i \in InitIds : SmokeOp(i)
    \/ \E i \in InitIds : InitBackoffDone(i)
    \/ BootContinue
    \/ FallbackOp
    \/ BootServe
    \/ \E c \in ConnIds : ConnReady(c)
    \/ \E c \in ConnIds : ConnClose(c)
    \/ \E c \in ConnIds : ConnEnd(c)
    \/ \E c \in ConnIds : ConnError(c)
    \/ \E c \in ConnIds : ConnectTimeout(c)
    \/ \E r \in {"r1"} : StartReconnect(r)
    \/ \E r \in {"r1"} : FinishReconnect(r)
    \/ CmdStart
    \/ CmdSucceed
    \/ \E kind \in ErrorKinds : CmdFail(kind)
    \/ CmdBackoffDone
    \/ CmdReturn

Spec == Init /\ [][Next]_vars

\* a step of a run of initRedis, or a connection to a healthy cluster
\* getting ready
InitStep ==
    \/ \E i \in InitIds : InitDiagnose(i) \/ WaitRound(i) \/ InitConnect(i)
                          \/ SmokeOp(i) \/ InitBackoffDone(i)
    \/ \E c \in ConnIds : cluster = "up" /\ ConnReady(c)

\* The event loop runs the continuations, I/O completions and timer
\* callbacks that are due, however many requests arrive in between (strong
\* fairness: a pending microtask holds the others back only for a moment),
\* and the caller of executeRedisCommand takes its result.  Nothing obliges
\* the environment to change, a client to send a request or a connection to
\* fail.
Fairness ==
    /\ SF_vars(InitStep)
    /\ SF_vars(\E c \in ConnIds : CheckStability(c))
    /\ WF_vars(CmdReturn)

LiveSpec == Spec /\ Fairness

\* ====================================================== request handlers
\* The routes are followed on a server that has finished its start-up, with
\* the adapter in one of the states the start-up can leave it in.
ServingBoot(failed, fallback) ==
    [pc |-> "serving", op |-> 0, initFailed |-> failed, fallbackOk |-> fallback]

HeldConn(kind) ==
    [FreeConn EXCEPT !.status = "ready", !.kind = kind, !.owner = "boot",
                     !.listening = TRUE,
                     !.promise = "resolved",
                     !.stable = kind = "cluster",
                     !.stableOk = kind = "cluster",
                     !.tested = IF kind = "cluster" THEN AllSmokeTests ELSE {}]

Serving(logging, timed) ==
    /\ cluster = "up"
    /\ redisCluster = 1
    /\ \E kind \in {"cluster", "single"} :
         /\ conn = [c \in ConnIds |-> IF c = 1 THEN HeldConn(kind) ELSE FreeConn]
         /\ boot = ServingBoot(kind = "single", kind = "single")
         /\ init = [i \in InitIds |->
                      IF i = "boot"
                      THEN [IdleInit EXCEPT !.pc = IF kind = "single" THEN "failed"
                                                   ELSE "done",
                                            !.failure = IF kind = "single"
                                                        THEN "coverage" ELSE "none"]
                      ELSE IdleInit]
    /\ isRedisOperational \in BOOLEAN
    /\ cmd = IdleCmd
    /\ exited = FALSE
    /\ hist = [reconnectRequested |-> FALSE, degradedAtRequest |-> FALSE,
               served |-> 0, deleted |-> NoDeleted, clock |-> 1, logging |-> logging,
               posted |-> NoPosted, timed |-> timed, blank |-> FALSE,
               overlapped |-> FALSE, reply |-> <<>>, counted |-> 0,
               parsed |-> FALSE, testUser |-> FALSE]
    /\ StoresIdle

StoreInit == Serving(FALSE, FALSE)

\* the same, with the console followed
LoggedInit == Serving(TRUE, FALSE)

\* the same, with the clock followed
TimedInit == Serving(FALSE, TRUE)

\* the same, with the console and the clock followed
WatchedInit == Serving(TRUE, TRUE)

\* the server has finished its start-up with the cluster connection held
\* and ready, the cluster is up
OverlapInit ==
    /\ cluster = "up"
    /\ redisCluster = 1
    /\ isRedisOperational = TRUE
    /\ conn = [c \in ConnIds |-> IF c = 1 THEN HeldConn("cluster") ELSE FreeConn]
    /\ init = [i \in InitIds |->
                 IF i = "boot" THEN [IdleInit EXCEPT !.pc = "done"] ELSE IdleInit]
    /\ boot = ServingBoot(FALSE, FALSE)
    /\ cmd = IdleCmd
    /\ exited = FALSE
    /\ hist = [reconnectRequested |-> FALSE, degradedAtRequest |-> FALSE,
               served |-> 0, deleted |-> NoDeleted, clock |-> 1, logging |-> FALSE,
               posted |-> NoPosted, timed |-> FALSE, blank |-> FALSE,
               overlapped |-> FALSE, reply |-> <<>>, counted |-> 0,
               parsed |-> FALSE, testUser |-> FALSE]
    /\ StoresIdle

\* the first request, or the second while the first is being served
Arrives(r) ==
    IF r = "r1" THEN ~hist.reconnectRequested
    ELSE ~hist.overlapped /\ init["r1"].pc # "idle"

\* POST /api/redis/reconnect, two requests overlapping while the cluster is
\* up: the runs of initRedis, their connections getting ready, their
\* polling timers and their connection timeouts
OverlapNext ==
    \/ \E r \in Reconnects : Arrives(r) /\ StartReconnect(r)
    \/ \E r \in Reconnects : FinishReconnect(r)
    \/ \E i \in Reconnects : InitDiagnose(i)
    \/ \E i \in Reconnects : InitConnect(i)
    \/ \E c \in ConnIds : CheckStability(c)
    \/ \E i \in Reconnects : SmokeOp(i)
    \/ \E i \in Reconnects : InitBackoffDone(i)
    \/ \E c \in ConnIds : ConnReady(c)
    \/ \E c \in ConnIds : ConnectTimeout(c)

OverlapSpec == OverlapInit /\ [][OverlapNext]_vars

\* what the routes leave alone; a handler that goes on after its call of
\* executeRedisCommand has taken the result of the call
Frame ==
    /\ UNCHANGED <<cluster, redisCluster, conn, init, boot, exited>>
    /\ cmd' = IdleCmd

InFlight(q) == req[q].pc \notin {"idle", "done"}

\* line 622-624: isCluster
IsCluster == conn[redisCluster].kind = "cluster"

\* a command on key can reach the node that holds the key: the cluster
\* client routes it to the owner of the slot, the single-node client of the
\* fallback talks to the first node only (any other key is answered MOVED)
Reachable(key) == IsCluster \/ Owner(key) = 1

\* line 682: isRedisReady() as the handler's next call of
\* executeRedisCommand finds it, at the end of the step that is being taken
ReadyNext ==
    /\ redisCluster # NULL
    /\ conn[redisCluster].status = "ready"
    /\ isRedisOperational'

\* faulty variant: the error of an earlier attempt is thrown although a
\* later attempt succeeded
ReturnedLastError ==
    CASE cmd.result = "ok" /\ cmd.lastErr = "none" -> "ok"
      [] cmd.result = "NotReady" -> "refused"
      [] OTHER -> "error"

\* line 683, 689, 702: how a call of executeRedisCommand that was followed
\* attempt by attempt has ended
Returned ==
    CASE cmd.result = "ok" -> "ok"
      [] cmd.result = "NotReady" -> "refused"
      [] OTHER -> "error"

\* line 681-710: how executeRedisCommand(client => client.<command>(key))
\* called by request r ends (when the call is not followed attempt by
\* attempt): refused when it was called (not ready), the
\* command's result, or its error after the retries (the node does not
\* serve at that moment)
Outcomes(r, key) ==
    IF cmd.pc = "done" THEN {Returned}
    ELSE IF ~req[r].sent THEN {"refused"}
    ELSE IF Reachable(key) THEN {"ok", "error"} ELSE {"error"}

\* line 694-698: the flag after the call: an error that counts as a
\* connection issue lowers it
FlagAfter(outcome) ==
    IF cmd.pc = "done" THEN {isRedisOperational}
    ELSE IF outcome = "error"
    THEN {IF IsConnectionIssue(kind, conn[redisCluster].status)
          THEN FALSE ELSE isRedisOperational : kind \in ErrorKinds}
    ELSE {isRedisOperational}

\* the key-value store holds no record
KvEmpty == \A id \in KvIds : kv[id] = NoRec

\* history after the arrival of a request: a POST /api/mysql/users is
\* answered as it arrives
PostedAfter(fields) ==
    IF fields.type = "sqlPost" /\ fields.resp = 201
    THEN PostedTo("sql", fields.id, fields.rec)
    ELSE IF fields.type \in {"kvGet", "sqlGet"} THEN hist.posted
    ELSE NoPosted

\* a request starts: its record, and what the others in flight learn (a
\* request that is alone is request 1: which record holds it is immaterial;
\* a response that was sent has been delivered before the next request
\* arrives)
BeginNoting(r, fields, deleted) ==
    /\ req[r].pc = "idle"
    /\ hist.served < MaxRequests
    /\ r # 1 => InFlight(1)
    /\ \A q \in Reqs : req[q].pc # "done"
    /\ req' = [q \in Reqs |->
                 IF q = r
                 THEN [fields EXCEPT !.alone = \A o \in Reqs \ {r} : ~InFlight(o),
                                     !.sent = isRedisReady /\ fields.pc # "done"]
                 ELSE IF InFlight(q) THEN [req[q] EXCEPT !.alone = FALSE]
                 ELSE req[q]]
    /\ hist' = [hist EXCEPT !.served = @ + 1, !.deleted = deleted,
                            !.posted = PostedAfter(fields),
                            !.clock = IF hist.timed THEN @ + 1 ELSE @,
                            !.blank = fields.type = "mysqlToRedis" /\ KvEmpty]

Begin(r, fields) == BeginNoting(r, fields, hist.deleted)

\* history after a write that creates the key of id
Created(id) ==
    IF hist.deleted = DeletedKv(id) THEN [hist EXCEPT !.deleted = NoDeleted] ELSE hist

\* what the console shows of the calls of executeRedisCommand made for
\* request r (when the console is followed: hist.logging), after a call that
\* ended with outcome o: "refused" (line 683),
\* "error" (line 702: all attempts failed), "retried" (line 692: an attempt
\* failed and a later one succeeded)
Noted(r, o) ==
    IF ~hist.logging THEN req[r].log
    ELSE req[r].log \cup (IF o # "ok" THEN {o}
                           ELSE IF cmd.attempt > 1 THEN {"retried"} ELSE {})

\* the handler sends its response after a call that ended with outcome o
AnswerAfter(r, status, o) ==
    req' = [req EXCEPT ![r].pc = "done", ![r].resp = status,
                       ![r].todo = {}, ![r].m = 0,
                       ![r].answered = {}, ![r].sent = FALSE,
                       ![r].rows = {}, ![r].dups = {},
                       ![r].log = Noted(r, o)]

\* the handler sends its response
Answer(r, status) == req' = [req EXCEPT ![r].pc = "done", ![r].resp = status,
                                        ![r].todo = {}, ![r].m = 0,
                                        ![r].answered = {}, ![r].sent = FALSE,
                                        ![r].rows = {}, ![r].dups = {}]

\* faulty variant: an id another request in flight has drawn can be drawn
FreshUuidsUnreserved == {u \in Uuids : kv[u] = NoRec}

\* a value of randomUUID(): an id no record has and no request in flight
\* has drawn
FreshUuids ==
    {u \in Uuids : kv[u] = NoRec /\ \A q \in Reqs : InFlight(q) => req[q].id # u}

\* the response has been delivered
Finish(r) ==
    /\ req[r].pc = "done"
    /\ req' = [req EXCEPT ![r] = IdleReq]
    /\ UNCHANGED <<kv, sql>>
    /\ UNCHANGED adapterVars

\* ------------------------------------------------ getAllKeysFromCluster
\* the pc of a handler after its call of getAllKeysFromCluster
AfterScan(type) ==
    CASE type = "kvPost" -> "check"
      [] type = "kvPut" -> "check"
      [] type = "redisToMysql" -> "copy"
      [] type = "kvList" -> "list"
      [] OTHER -> "find"

\* where a handler stands when getAllKeysFromCluster has returned
PostScan == {"check", "copy", "find", "list"}

\* line 642-647: the keys a scan of master m returns (one page at this size)
ScanOf(pattern, m) ==
    {k \in KeysOn(kv, {TestKey} \cup (IF hist.testUser THEN {TestUserKey} ELSE {}), m) :
        Matches(pattern, k)}

\* what hgetall(key) returns for a key a scan has returned
HashAt(k) ==
    IF k = TestUserKey THEN (IF hist.testUser THEN TestUserRec ELSE NoRec)
    ELSE kv[k[2]]

\* the nodes getAllKeysFromCluster has to scan
ScanTargets == IF IsCluster THEN Masters ELSE {1}

\* what the console shows after the scans: "skipped" when a node was skipped
\* or its scan failed (line 633, 651, 675)
ScanNoted(r, masters) ==
    IF ~hist.logging THEN req[r].log
    ELSE req[r].log \cup (IF masters = ScanTargets THEN {} ELSE {"skipped"})

\* line 1201, 1278: keys.length, which the response of the routes that
\* report it will carry
Reported(r, result) ==
    IF req[r].type \in {"redisToMysql", "cleanup"} THEN Cardinality(result) ELSE 0

\* faulty variant: a master that did not answer fails the whole enumeration
ScannedAllOrNothing(r, result, masters) ==
    req' = [req EXCEPT ![r].pc = AfterScan(req[r].type), ![r].m = 0,
                       ![r].sent = isRedisReady,
                       ![r].todo = IF masters = Masters THEN result ELSE {},
                       ![r].total = IF masters = Masters THEN Reported(r, result) ELSE 0,
                       ![r].answered = masters,
                       ![r].log = ScanNoted(r, masters)]

\* line 672-676: getAllKeysFromCluster returns
Scanned(r, result, masters) ==
    req' = [req EXCEPT ![r].pc = AfterScan(req[r].type), ![r].m = 0,
                       ![r].sent = isRedisReady,
                       ![r].todo = result,
                       ![r].total = Reported(r, result),
                       ![r].answered = masters,
                       ![r].log = ScanNoted(r, masters)]

\* line 612-678: getAllKeysFromCluster('user:*') called by request r, one
\* step per await.  Whether the master serves at that moment is the
\* environment's choice: one that does not is skipped (line 632) or its
\* scan fails (line 650), and nothing is added for it either way.  In
\* single-node mode a failing scan ends in the outer catch (line 674)
Scan(r) ==
    /\ req[r].pc = "scan"
    /\ IF req[r].m = 0 /\ ~req[r].sent
       THEN Scanned(r, {}, {})
       ELSE \E serves \in BOOLEAN :
              IF ~IsCluster
              THEN IF serves
                   THEN Scanned(r, ScanOf(UserPattern, 1), {1})
                   ELSE Scanned(r, {}, {})
              ELSE LET m == req[r].m + 1
                       got == IF serves THEN ScanOf(UserPattern, m) ELSE {}
                       who == IF serves THEN {m} ELSE {}
                   IN IF m = NumMasters
                      THEN Scanned(r, req[r].todo \cup got, req[r].answered \cup who)
                      ELSE req' = [req EXCEPT ![r].m = m, ![r].todo = @ \cup got,
                                              ![r].answered = @ \cup who]
    /\ UNCHANGED <<kv, sql>>
    /\ UNCHANGED adapterVars

\* ------------------------------------------------ /api/redis/users
\* line 1004-1012: GET /api/redis/users arrives
KvListStart(r) ==
    /\ Begin(r, [IdleReq EXCEPT !.type = "kvList",
                                !.pc = IF isRedisReady THEN "scan" ELSE "done",
                                !.resp = IF isRedisReady THEN 0 ELSE 503])
    /\ UNCHANGED <<kv, sql, isRedisOperational>>
    /\ Frame

\* line 1015-1031: one turn of the loop that reads the users: an error of
\* hgetall is logged and the loop goes on, an empty hash is passed over;
\* after the last key the response, an array of the users read
KvListRead(r) ==
    /\ req[r].pc = "list"
    /\ IF req[r].todo = {}
       THEN /\ req' = [req EXCEPT ![r].pc = "done", ![r].resp = 200, ![r].sent = FALSE,
                                  ![r].answered = {}]
            /\ isRedisOperational' = isRedisOperational
       ELSE \E k \in req[r].todo : \E o \in Outcomes(r, k) :
              /\ isRedisOperational' \in FlagAfter(o)
              /\ req' = [req EXCEPT ![r].log = Noted(r, o), ![r].todo = @ \ {k},
                                    ![r].answered = {}, ![r].sent = ReadyNext,
                                    ![r].rows = IF o = "ok" /\ HashAt(k) # NoRec
                                                THEN @ \cup {[id |-> k[2], rec |-> HashAt(k)]}
                                                ELSE @]
    /\ UNCHANGED <<kv, sql, hist>>
    /\ Frame

\* line 1038-1040: GET /api/redis/users/:id arrives
KvGetStart(r) ==
    /\ \E id \in KvIds :
         Begin(r, [IdleReq EXCEPT !.type = "kvGet", !.id = id,
                                  !.pc = IF isRedisReady THEN "read" ELSE "done",
                                  !.resp = IF isRedisReady THEN 0 ELSE 503])
    /\ UNCHANGED <<kv, sql, isRedisOperational>>
    /\ Frame

\* line 1042-1048: hgetall and the response
KvGetRead(r) ==
    /\ req[r].pc = "read"
    /\ \E o \in Outcomes(r, UserKey(req[r].id)) :
         /\ isRedisOperational' \in FlagAfter(o)
         /\ IF o = "ok"
            THEN IF kv[req[r].id] = NoRec
                 THEN AnswerAfter(r, 404, o)
                 ELSE req' = [req EXCEPT ![r].log = Noted(r, o), ![r].pc = "done", ![r].resp = 200,
                                         ![r].rec = kv[req[r].id], ![r].sent = FALSE]
            ELSE AnswerAfter(r, 500, o)
    /\ UNCHANGED <<kv, sql, hist>>
    /\ Frame

\* line 1051-1059: POST /api/redis/users arrives (the id is drawn at line
\* 1071: which value it will be is fixed here)
KvPostStart(r) ==
    /\ \E rec \in Recs, id \in FreshUuids :
         Begin(r, [IdleReq EXCEPT !.type = "kvPost", !.id = id, !.rec = rec,
                                  !.pc = IF isRedisReady THEN "scan" ELSE "done",
                                  !.resp = IF isRedisReady THEN 0 ELSE 503])
    /\ UNCHANGED <<kv, sql, isRedisOperational>>
    /\ Frame

\* line 1060-1069 and 1101-1112: one turn of the duplicate check (PUT skips
\* its own key); an error of hgetall is logged and the loop goes on.  When
\* the loop is over the handler calls hset
KvCheck(r) ==
    /\ req[r].pc = "check"
    /\ LET own == IF req[r].type = "kvPut" THEN {UserKey(req[r].id)} ELSE {}
           todo == req[r].todo \ own
       IN IF todo = {}
          THEN /\ isRedisOperational' = isRedisOperational
               /\ req' = [req EXCEPT ![r].pc = "write", ![r].todo = {},
                                     ![r].answered = {}]
          ELSE \E k \in todo : \E o \in Outcomes(r, k) :
                 /\ isRedisOperational' \in FlagAfter(o)
                 /\ IF o = "ok" /\ kv[k[2]].email = req[r].rec.email
                    THEN AnswerAfter(r, 409, o)
                    ELSE req' = [req EXCEPT ![r].log = Noted(r, o), ![r].todo = todo \ {k},
                                            ![r].answered = {},
                                            ![r].sent = ReadyNext]
    /\ UNCHANGED <<kv, sql, hist>>
    /\ Frame

\* faulty variant: the phone is not written
KvPostDataNoPhone(body) ==
    [name |-> body.name, email |-> body.email, phone |-> "", at |-> Now]

\* line 1072-1078: the hash POST writes
KvPostData(body) ==
    [name |-> body.name, email |-> body.email, phone |-> OrEmpty(body.phone),
     at |-> Now]

\* faulty variant: PUT writes created_at as POST does
KvPutDataStamped(body, old) == KvPostData(body)

\* line 1114: the fields PUT writes; hset leaves the other fields of the hash
\* (created_at) as they are, and a hash it creates has none
KvPutData(body, old) ==
    [name |-> body.name, email |-> body.email, phone |-> OrEmpty(body.phone),
     at |-> old.at]

\* line 1080-1085 and 1114-1120: hset and the response (hset creates the
\* key when it is absent)
KvWrite(r) ==
    /\ req[r].pc = "write"
    /\ req[r].type \in {"kvPost", "kvPut"}
    /\ \E o \in Outcomes(r, UserKey(req[r].id)) :
         /\ isRedisOperational' \in FlagAfter(o)
         /\ IF o = "ok"
            THEN /\ kv' = [kv EXCEPT ![req[r].id] =
                              IF req[r].type = "kvPost"
                              THEN KvPostData(req[r].rec)
                              ELSE KvPutData(req[r].rec, kv[req[r].id])]
                 /\ hist' = IF req[r].type = "kvPost"
                            THEN [Created(req[r].id) EXCEPT
                                    !.posted = PostedTo("kv", req[r].id, req[r].rec)]
                            ELSE Created(req[r].id)
                 /\ req' = [req EXCEPT ![r].log = Noted(r, o), ![r].pc = "done", ![r].sent = FALSE,
                                       ![r].resp = IF req[r].type = "kvPost"
                                                   THEN 201 ELSE 200]
            ELSE /\ kv' = kv
                 /\ hist' = hist
                 /\ AnswerAfter(r, 500, o)
    /\ sql' = sql
    /\ Frame

\* line 1088-1096: PUT /api/redis/users/:id arrives
KvPutStart(r) ==
    /\ \E id \in KvIds, rec \in Recs :
         Begin(r, [IdleReq EXCEPT !.type = "kvPut", !.id = id, !.rec = rec,
                                  !.pc = IF isRedisReady THEN "exists" ELSE "done",
                                  !.resp = IF isRedisReady THEN 0 ELSE 503])
    /\ UNCHANGED <<kv, sql, isRedisOperational>>
    /\ Frame

\* line 1123-1127: DELETE /api/redis/users/:id arrives
KvDeleteStart(r) ==
    /\ \E id \in KvIds :
         Begin(r, [IdleReq EXCEPT !.type = "kvDelete", !.id = id,
                                  !.pc = IF isRedisReady THEN "exists" ELSE "done",
                                  !.resp = IF isRedisReady THEN 0 ELSE 503])
    /\ UNCHANGED <<kv, sql, isRedisOperational>>
    /\ Frame

\* faulty variant: the handler goes on whatever exists answers
KvExistsIgnored(r) ==
    /\ req[r].pc = "exists"
    /\ \E o \in Outcomes(r, UserKey(req[r].id)) :
         /\ isRedisOperational' \in FlagAfter(o)
         /\ IF o = "ok"
            THEN req' = [req EXCEPT ![r].log = Noted(r, o), ![r].pc = IF req[r].type = "kvPut"
                                              THEN "scan" ELSE "del",
                                    ![r].sent = ReadyNext]
            ELSE AnswerAfter(r, 500, o)
    /\ UNCHANGED <<kv, sql, hist>>
    /\ Frame

\* line 1096-1097 and 1127-1128: exists and the 404
KvExists(r) ==
    /\ req[r].pc = "exists"
    /\ \E o \in Outcomes(r, UserKey(req[r].id)) :
         /\ isRedisOperational' \in FlagAfter(o)
         /\ IF o = "ok"
            THEN IF kv[req[r].id] = NoRec
                 THEN AnswerAfter(r, 404, o)
                 ELSE req' = [req EXCEPT ![r].log = Noted(r, o), ![r].pc = IF req[r].type = "kvPut"
                                                   THEN "scan" ELSE "del",
                                         ![r].sent = ReadyNext]
            ELSE AnswerAfter(r, 500, o)
    /\ UNCHANGED <<kv, sql, hist>>
    /\ Frame

\* faulty variant: 200 is answered and the key is left in place
KvDeleteKeeps(r) ==
    /\ req[r].pc = "del"
    /\ \E o \in Outcomes(r, UserKey(req[r].id)) :
         /\ isRedisOperational' \in FlagAfter(o)
         /\ IF o = "ok"
            THEN /\ hist' = [hist EXCEPT !.deleted = DeletedKv(req[r].id)]
                 /\ req' = [req EXCEPT ![r].log = Noted(r, o), ![r].pc = "done", ![r].resp = 200,
                                       ![r].sent = FALSE]
            ELSE /\ hist' = hist
                 /\ AnswerAfter(r, 500, o)
    /\ UNCHANGED <<kv, sql>>
    /\ Frame

\* line 1130-1135: del and the response
KvDelete(r) ==
    /\ req[r].pc = "del"
    /\ \E o \in Outcomes(r, UserKey(req[r].id)) :
         /\ isRedisOperational' \in FlagAfter(o)
         /\ IF o = "ok"
            THEN /\ kv' = [kv EXCEPT ![req[r].id] = NoRec]
                 /\ hist' = [hist EXCEPT !.deleted = DeletedKv(req[r].id)]
                 /\ req' = [req EXCEPT ![r].log = Noted(r, o), ![r].pc = "done", ![r].resp = 200,
                                       ![r].sent = FALSE]
            ELSE /\ kv' = kv
                 /\ hist' = hist
                 /\ AnswerAfter(r, 500, o)
    /\ sql' = sql
    /\ Frame

\* ------------------------------------------------ /api/mysql/users
\* faulty variant: no unique index on email
HoldsEmailUnchecked(rows, email) == {}

\* part_003 line 8: email ... UNIQUE: the row that holds the email
HoldsEmail(rows, email) == {i \in SqlIds : rows[i] # NoRec /\ rows[i].email = email}

\* line 944-953: GET /api/mysql/users/:id
SqlGet(r) ==
    /\ \E id \in SqlIds :
         Begin(r, [IdleReq EXCEPT !.type = "sqlGet", !.id = NumId(id), !.pc = "done",
                                  !.rec = sql.rows[id],
                                  !.resp = IF sql.rows[id] = NoRec THEN 404 ELSE 200])
    /\ UNCHANGED <<kv, sql, isRedisOperational>>
    /\ Frame

\* line 955-970: POST /api/mysql/users: INSERT, 409 on ER_DUP_ENTRY
SqlPost(r) ==
    /\ \E rec \in Recs :
         IF HoldsEmail(sql.rows, rec.email) # {}
         THEN /\ Begin(r, [IdleReq EXCEPT !.type = "sqlPost", !.rec = rec, !.pc = "done",
                                          !.resp = 409])
              /\ sql' = sql
         ELSE /\ sql.nextId <= MaxSqlId
              /\ Begin(r, [IdleReq EXCEPT !.type = "sqlPost", !.rec = rec, !.pc = "done",
                                          !.id = NumId(sql.nextId), !.resp = 201])
              /\ sql' = [rows |-> [sql.rows EXCEPT ![sql.nextId] =
                                              [rec EXCEPT !.at = Now]],
                         nextId |-> sql.nextId + 1]
    /\ UNCHANGED <<kv, isRedisOperational>>
    /\ Frame

\* line 972-989: PUT /api/mysql/users/:id: UPDATE, 404 when no row is
\* affected, 409 on ER_DUP_ENTRY
SqlPut(r) ==
    /\ \E id \in SqlIds, rec \in Recs :
         LET fields == [IdleReq EXCEPT !.type = "sqlPut", !.id = NumId(id), !.rec = rec,
                                       !.pc = "done"]
         IN IF sql.rows[id] = NoRec
            THEN /\ Begin(r, [fields EXCEPT !.resp = 404])
                 /\ sql' = sql
            ELSE IF HoldsEmail(sql.rows, rec.email) \ {id} # {}
            THEN /\ Begin(r, [fields EXCEPT !.resp = 409])
                 /\ sql' = sql
            ELSE /\ Begin(r, [fields EXCEPT !.resp = 200])
                 /\ sql' = [sql EXCEPT !.rows[id] = [rec EXCEPT !.at = sql.rows[id].at]]
    /\ UNCHANGED <<kv, isRedisOperational>>
    /\ Frame

\* faulty variant: the copy of the row in the key-value store is deleted
\* with the row
SqlDeleteBoth(r) ==
    /\ \E id \in SqlIds :
         LET fields == [IdleReq EXCEPT !.type = "sqlDelete", !.id = NumId(id), !.pc = "done"]
         IN IF sql.rows[id] = NoRec
            THEN /\ Begin(r, [fields EXCEPT !.resp = 404])
                 /\ UNCHANGED <<kv, sql>>
            ELSE /\ BeginNoting(r, [fields EXCEPT !.resp = 200], DeletedSql(id))
                 /\ sql' = [sql EXCEPT !.rows[id] = NoRec]
                 /\ kv' = [kv EXCEPT ![NumId(id)] = NoRec]
    /\ UNCHANGED isRedisOperational
    /\ Frame

\* line 991-1000: DELETE /api/mysql/users/:id
SqlDelete(r) ==
    /\ \E id \in SqlIds :
         LET fields == [IdleReq EXCEPT !.type = "sqlDelete", !.id = NumId(id), !.pc = "done"]
         IN IF sql.rows[id] = NoRec
            THEN /\ Begin(r, [fields EXCEPT !.resp = 404])
                 /\ sql' = sql
            ELSE /\ BeginNoting(r, [fields EXCEPT !.resp = 200], DeletedSql(id))
                 /\ sql' = [sql EXCEPT !.rows[id] = NoRec]
    /\ UNCHANGED <<kv, isRedisOperational>>
    /\ Frame

\* ------------------------------------------------ /api/mysql-to-redis
\* line 1143: the result of SELECT * FROM users
Selected == {[id |-> NumId(i), rec |-> sql.rows[i]] : i \in {j \in SqlIds : sql.rows[j] # NoRec}}

\* faulty variant: the counter counts the turns of the loop
CopiedAlways(r, o) == req[r].success + 1

\* line 1157: successCount++ after the hset
Copied(r, o) == req[r].success + (IF o = "ok" THEN 1 ELSE 0)

\* faulty variant: the rows are selected before the adapter is looked at
MysqlToRedisStartReading(r) ==
    /\ Begin(r, [IdleReq EXCEPT !.type = "mysqlToRedis",
                   !.pc = IF isRedisReady THEN "copyIn" ELSE "done",
                   !.resp = IF isRedisReady THEN 0 ELSE 503,
                   !.rows = Selected,
                   !.total = Cardinality(Selected)])
    /\ UNCHANGED <<kv, sql, isRedisOperational>>
    /\ Frame

\* line 1139-1143: the request arrives and SELECT * FROM users is answered
MysqlToRedisStart(r) ==
    /\ Begin(r, [IdleReq EXCEPT !.type = "mysqlToRedis",
                   !.pc = IF isRedisReady THEN "copyIn" ELSE "done",
                   !.resp = IF isRedisReady THEN 0 ELSE 503,
                   !.rows = IF isRedisReady THEN Selected ELSE {},
                   !.total = IF isRedisReady THEN Cardinality(Selected) ELSE 0])
    /\ UNCHANGED <<kv, sql, isRedisOperational>>
    /\ Frame

\* the rows are handled in the order of the result
FirstRow(rows) == CHOOSE u \in rows : \A v \in rows : u.id.n <= v.id.n

\* line 1148-1154: the hash written for a row
CopyOfRow(row) == [row EXCEPT !.phone = OrEmpty(@)]

\* line 1146-1167: one turn of the copy loop: hset user:<id>, an error is
\* logged and the loop goes on; after the last row the response
MysqlToRedisCopy(r) ==
    /\ req[r].pc = "copyIn"
    /\ IF req[r].rows = {}
       THEN /\ Answer(r, 200)
            /\ UNCHANGED <<kv, isRedisOperational, hist>>
       ELSE LET u == FirstRow(req[r].rows)
            IN \E o \in Outcomes(r, UserKey(u.id)) :
                 /\ isRedisOperational' \in FlagAfter(o)
                 /\ kv' = IF o = "ok" THEN [kv EXCEPT ![u.id] = CopyOfRow(u.rec)] ELSE kv
                 /\ hist' = IF o = "ok" THEN Created(u.id) ELSE hist
                 /\ req' = [req EXCEPT ![r].log = Noted(r, o), ![r].rows = @ \ {u},
                                       ![r].sent = ReadyNext,
                                       ![r].success = Copied(r, o)]
    /\ sql' = sql
    /\ Frame

\* ------------------------------------------------ /api/redis-to-mysql
\* line 1175-1179: the request arrives
RedisToMysqlStart(r) ==
    /\ Begin(r, [IdleReq EXCEPT !.type = "redisToMysql",
                   !.pc = IF isRedisReady THEN "scan" ELSE "done",
                   !.resp = IF isRedisReady THEN 0 ELSE 503])
    /\ UNCHANGED <<kv, sql, isRedisOperational>>
    /\ Frame

\* line 1183-1186, 1193-1196: one turn of the copy loop: hgetall; an error
\* is counted and the loop goes on, an empty hash is passed over; after the
\* last key the response
RedisToMysqlRead(r) ==
    /\ req[r].pc = "copy"
    /\ IF req[r].todo = {}
       THEN /\ Answer(r, 200)
            /\ isRedisOperational' = isRedisOperational
       ELSE \E k \in req[r].todo : \E o \in Outcomes(r, k) :
              /\ isRedisOperational' \in FlagAfter(o)
              /\ IF o = "ok" /\ HashAt(k) # NoRec
                 THEN req' = [req EXCEPT ![r].log = Noted(r, o), ![r].pc = "upsert", ![r].todo = @ \ {k},
                                         ![r].answered = {},
                                         ![r].rec = HashAt(k), ![r].sent = ReadyNext]
                 ELSE req' = [req EXCEPT ![r].log = Noted(r, o), ![r].todo = @ \ {k}, ![r].answered = {},
                                         ![r].sent = ReadyNext,
                                         ![r].errors = IF o = "ok" THEN @ ELSE @ + 1]
    /\ UNCHANGED <<kv, sql, hist>>
    /\ Frame

\* line 1187-1192: INSERT ... ON DUPLICATE KEY UPDATE name, phone, address,
\* counted when it is done; line 1193-1196: the statement fails (the values
\* of the AUTO_INCREMENT id are used up) and the error is counted
RedisToMysqlUpsert(r) ==
    /\ req[r].pc = "upsert"
    /\ LET held == HoldsEmail(sql.rows, req[r].rec.email)
       IN IF held # {}
          THEN /\ sql' = [sql EXCEPT !.rows = [i \in SqlIds |->
                             IF i \in held THEN [@[i] EXCEPT !.name = req[r].rec.name,
                                                              !.phone = req[r].rec.phone]
                             ELSE @[i]]]
               /\ req' = [req EXCEPT ![r].pc = "copy", ![r].rec = NoRec,
                                     ![r].success = @ + 1]
          ELSE IF sql.nextId <= MaxSqlId
          THEN /\ sql' = [rows |-> [sql.rows EXCEPT ![sql.nextId] =
                                               [req[r].rec EXCEPT !.at = Now]],
                          nextId |-> sql.nextId + 1]
               /\ req' = [req EXCEPT ![r].pc = "copy", ![r].rec = NoRec,
                                     ![r].success = @ + 1]
          ELSE /\ sql' = sql
               /\ req' = [req EXCEPT ![r].pc = "copy", ![r].rec = NoRec,
                                     ![r].errors = @ + 1]
    /\ UNCHANGED kv
    /\ UNCHANGED adapterVars

\* ------------------------------------------ /api/redis/cleanup-duplicates
\* line 1212-1216: the request arrives
CleanupStart(r) ==
    /\ Begin(r, [IdleReq EXCEPT !.type = "cleanup",
                   !.pc = IF isRedisReady THEN "scan" ELSE "done",
                   !.resp = IF isRedisReady THEN 0 ELSE 503])
    /\ UNCHANGED <<kv, sql, isRedisOperational>>
    /\ Frame

\* line 1222-1237: one turn of the loop that finds the duplicates: the
\* first record seen with an email is kept
CleanupFind(r) ==
    /\ req[r].pc = "find"
    /\ IF req[r].todo = {}
       THEN /\ req' = [req EXCEPT ![r].pc = "remove", ![r].answered = {}]
            /\ isRedisOperational' = isRedisOperational
       ELSE \E k \in req[r].todo : \E o \in Outcomes(r, k) :
              /\ isRedisOperational' \in FlagAfter(o)
              /\ IF o = "ok" /\ kv[k[2]] # NoRec
                 THEN IF \E u \in req[r].rows : u.rec.email = kv[k[2]].email
                      THEN req' = [req EXCEPT ![r].log = Noted(r, o), ![r].todo = @ \ {k}, ![r].sent = ReadyNext,
                                              ![r].answered = {},
                                              ![r].dups = @ \cup {k[2]}]
                      ELSE req' = [req EXCEPT ![r].log = Noted(r, o), ![r].todo = @ \ {k}, ![r].sent = ReadyNext,
                                              ![r].answered = {},
                                              ![r].rows = @ \cup {[id |-> k[2],
                                                                   rec |-> kv[k[2]]]}]
                 ELSE req' = [req EXCEPT ![r].log = Noted(r, o), ![r].todo = @ \ {k}, ![r].answered = {},
                                         ![r].sent = ReadyNext]
    /\ UNCHANGED <<kv, sql, hist>>
    /\ Frame

\* line 1241-1248: one turn of the loop that deletes the duplicates
CleanupRemove(r) ==
    /\ req[r].pc = "remove"
    /\ IF req[r].dups = {}
       THEN /\ req' = [req EXCEPT ![r].pc = "reassign",
                                  ![r].rows = {u \in @ : IsNumeric(u.id)}]
            /\ UNCHANGED <<kv, isRedisOperational>>
       ELSE \E d \in req[r].dups : \E o \in Outcomes(r, UserKey(d)) :
              /\ isRedisOperational' \in FlagAfter(o)
              /\ kv' = IF o = "ok" THEN [kv EXCEPT ![d] = NoRec] ELSE kv
              /\ req' = [req EXCEPT ![r].log = Noted(r, o), ![r].dups = @ \ {d}, ![r].sent = ReadyNext]
    /\ UNCHANGED <<sql, hist>>
    /\ Frame

\* faulty variant: the new hash gets the time of the reassignment
ReassignedStamped(user) == [user EXCEPT !.phone = OrEmpty(@), !.at = Now]

\* line 1257-1263: the hash written under the new id
Reassigned(user) ==
    [user EXCEPT !.phone = OrEmpty(@), !.at = IF @ = 0 THEN Now ELSE @]

\* faulty variant: the old key is deleted also when the hset of the new
\* key has failed
CleanupReassignUnchecked(r) ==
    /\ req[r].pc = "reassign"
    /\ IF req[r].rows = {}
       THEN /\ Answer(r, 200)
            /\ UNCHANGED <<kv, isRedisOperational, hist>>
       ELSE \E u \in req[r].rows : \E id \in FreshUuids : \E o \in Outcomes(r, UserKey(id)) :
              /\ isRedisOperational' \in FlagAfter(o)
              /\ kv' = IF o = "ok" THEN [kv EXCEPT ![id] = Reassigned(u.rec)] ELSE kv
              /\ hist' = IF o = "ok" THEN Created(id) ELSE hist
              /\ req' = [req EXCEPT ![r].log = Noted(r, o), ![r].pc = "reassignDel",
                                    ![r].id = u.id, ![r].rows = @ \ {u},
                                    ![r].sent = ReadyNext]
    /\ sql' = sql
    /\ Frame

\* line 1252-1265: one turn of the reassignment loop, up to the hset of the
\* new key; after the last user the response
CleanupReassign(r) ==
    /\ req[r].pc = "reassign"
    /\ IF req[r].rows = {}
       THEN /\ Answer(r, 200)
            /\ UNCHANGED <<kv, isRedisOperational, hist>>
       ELSE \E u \in req[r].rows : \E id \in FreshUuids : \E o \in Outcomes(r, UserKey(id)) :
              /\ isRedisOperational' \in FlagAfter(o)
              /\ IF o = "ok"
                 THEN /\ kv' = [kv EXCEPT ![id] = Reassigned(u.rec)]
                      /\ hist' = Created(id)
                      /\ req' = [req EXCEPT ![r].log = Noted(r, o), ![r].pc = "reassignDel", ![r].id = u.id,
                                            ![r].rows = @ \ {u}, ![r].sent = ReadyNext]
                 ELSE /\ kv' = kv
                      /\ hist' = hist
                      /\ req' = [req EXCEPT ![r].log = Noted(r, o), ![r].rows = @ \ {u}, ![r].sent = ReadyNext]
    /\ sql' = sql
    /\ Frame

\* line 1266-1270: the del of the old key; an error is logged
CleanupReassignDel(r) ==
    /\ req[r].pc = "reassignDel"
    /\ \E o \in Outcomes(r, UserKey(req[r].id)) :
         /\ isRedisOperational' \in FlagAfter(o)
         /\ kv' = IF o = "ok" THEN [kv EXCEPT ![req[r].id] = NoRec] ELSE kv
         /\ req' = [req EXCEPT ![r].log = Noted(r, o), ![r].pc = "reassign", ![r].id = Uuid(0),
                               ![r].sent = ReadyNext]
    /\ UNCHANGED <<sql, hist>>
    /\ Frame

\* ------------------------------------------------ /api/health
\* ------------------------------------------------ /api/redis/test
\* line 1287-1288: POST /api/redis/test arrives
RedisTestStart(r) ==
    /\ Begin(r, [IdleReq EXCEPT !.type = "redisTest",
                                !.pc = IF isRedisReady THEN "tests" ELSE "done",
                                !.resp = IF isRedisReady THEN 0 ELSE 503])
    /\ UNCHANGED <<kv, sql, isRedisOperational>>
    /\ Frame

\* line 57-126: testRedisOperations up to the hset of test 6.  A command
\* that fails ends the tests: the keys written so far are deleted and the
\* route answers 500 (line 155-172, 1296-1301); the single-node client of
\* the fallback has no nodes('master') (line 100)
RedisTestWrite(r) ==
    /\ req[r].pc = "tests"
    /\ \E ok \in BOOLEAN :
         IF ok /\ IsCluster
         THEN /\ hist' = [hist EXCEPT !.testUser = TRUE]
              /\ req' = [req EXCEPT ![r].pc = "cleanup"]
         ELSE /\ hist' = hist
              /\ Answer(r, 500)
    /\ UNCHANGED <<kv, sql, isRedisOperational>>
    /\ Frame

\* line 127-152: exists and hgetall of the test key, then the del of every
\* test key, where a del that fails is only logged; line 155-172: when
\* exists or hgetall fails the keys are deleted as far as possible and the
\* route answers 500
RedisTestCleanup(r) ==
    /\ req[r].pc = "cleanup"
    /\ \E read \in BOOLEAN, removed \in BOOLEAN :
         /\ hist' = [hist EXCEPT !.testUser = ~removed]
         /\ Answer(r, IF read THEN 200 ELSE 500)
    /\ UNCHANGED <<kv, sql, isRedisOperational>>
    /\ Frame

\* line 804-880: the routes are registered by the listen callback after
\* initRedis, the fallback and the MySQL connection loop
RoutesRegistered == boot.pc = "serving"

\* line 880-930: GET /api/health arrives at the listening server: with no
\* route registered express answers 404; the handler reads the connection
\* status (errors caught), and pings when isRedisReady() (req.m: the
\* connection the ping is issued on)
HealthStart(r) ==
    /\ Running
    /\ Begin(r, [IdleReq EXCEPT !.type = "health",
                   !.pc = IF RoutesRegistered /\ isRedisReady THEN "ping" ELSE "done",
                   !.m = IF RoutesRegistered /\ isRedisReady THEN redisCluster ELSE 0,
                   !.resp = IF ~RoutesRegistered THEN 404
                            ELSE IF isRedisReady THEN 0 ELSE 200])
    /\ UNCHANGED <<cluster, redisCluster, isRedisOperational, conn, init, boot, cmd, exited>>
    /\ UNCHANGED <<kv, sql>>

\* line 912-919: the ping is answered, or it fails and the handler lowers
\* the flag; line 921-928: the response
HealthPing(r) ==
    /\ Running
    /\ req[r].pc = "ping"
    /\ \E answered \in BOOLEAN :
         /\ answered => conn[req[r].m].status = "ready"
         /\ ~answered => cluster # "up" \/ conn[req[r].m].status # "ready"
         /\ isRedisOperational' = IF answered THEN isRedisOperational ELSE FALSE
    /\ req' = [req EXCEPT ![r].pc = "done", ![r].resp = 200, ![r].m = 0]
    /\ UNCHANGED <<cluster, redisCluster, conn, init, boot, cmd, exited, hist>>
    /\ UNCHANGED <<kv, sql>>

\* the routes, served for the requests of R
Routes(R) ==
    \/ \E r \in R : Finish(r)
    \/ \E r \in R : Scan(r)
    \/ \E r \in R : KvListStart(r)
    \/ \E r \in R : KvListRead(r)
    \/ \E r \in R : KvGetStart(r)
    \/ \E r \in R : KvGetRead(r)
    \/ \E r \in R : KvPostStart(r)
    \/ \E r \in R : KvCheck(r)
    \/ \E r \in R : KvWrite(r)
    \/ \E r \in R : KvPutStart(r)
    \/ \E r \in R : KvDeleteStart(r)
    \/ \E r \in R : KvExists(r)
    \/ \E r \in R : KvDelete(r)
    \/ \E r \in R : SqlGet(r)
    \/ \E r \in R : SqlPost(r)
    \/ \E r \in R : SqlPut(r)
    \/ \E r \in R : SqlDelete(r)
    \/ \E r \in R : MysqlToRedisStart(r)
    \/ \E r \in R : MysqlToRedisCopy(r)
    \/ \E r \in R : RedisToMysqlStart(r)
    \/ \E r \in R : RedisToMysqlRead(r)
    \/ \E r \in R : RedisToMysqlUpsert(r)
    \/ \E r \in R : CleanupStart(r)
    \/ \E r \in R : CleanupFind(r)
    \/ \E r \in R : CleanupRemove(r)
    \/ \E r \in R : CleanupReassign(r)
    \/ \E r \in R : CleanupReassignDel(r)

\* requests overlap: a handler runs up to its next await, then any other may
StoreNext == Routes(Reqs)

StoreSpec == StoreInit /\ [][StoreNext]_vars

\* requests are served one at a time: the next one arrives after the response
SerialNext == Routes({1})

SerialSpec == StoreInit /\ [][SerialNext]_vars

\* the routes that create and rewrite records, requests served one at a
\* time, each at a later time than the one before
TimedNext ==
    \/ \E r \in {1} : Finish(r)
    \/ \E r \in {1} : Scan(r)
    \/ \E r \in {1} : KvPostStart(r)
    \/ \E r \in {1} : KvCheck(r)
    \/ \E r \in {1} : KvWrite(r)
    \/ \E r \in {1} : KvPutStart(r)
    \/ \E r \in {1} : KvExists(r)
    \/ \E r \in {1} : SqlPost(r)
    \/ \E r \in {1} : SqlPut(r)
    \/ \E r \in {1} : MysqlToRedisStart(r)
    \/ \E r \in {1} : MysqlToRedisCopy(r)
    \/ \E r \in {1} : RedisToMysqlStart(r)
    \/ \E r \in {1} : RedisToMysqlRead(r)
    \/ \E r \in {1} : RedisToMysqlUpsert(r)
    \/ \E r \in {1} : CleanupStart(r)
    \/ \E r \in {1} : CleanupFind(r)
    \/ \E r \in {1} : CleanupRemove(r)
    \/ \E r \in {1} : CleanupReassign(r)
    \/ \E r \in {1} : CleanupReassignDel(r)

TimedSpec == TimedInit /\ [][TimedNext]_vars

\* the routes that write the relational store, requests overlapping; POST
\* /api/redis/users, which gives redis-to-mysql something to copy, arrives
\* while no other request is in flight
SqlNext ==
    \/ \E r \in Reqs : Finish(r)
    \/ \E r \in Reqs : Scan(r)
    \/ \E r \in {1} : KvPostStart(r)
    \/ \E r \in Reqs : KvCheck(r)
    \/ \E r \in Reqs : KvWrite(r)
    \/ \E r \in Reqs : SqlPost(r)
    \/ \E r \in Reqs : SqlPut(r)
    \/ \E r \in Reqs : SqlDelete(r)
    \/ \E r \in Reqs : RedisToMysqlStart(r)
    \/ \E r \in Reqs : RedisToMysqlRead(r)
    \/ \E r \in Reqs : RedisToMysqlUpsert(r)

SqlSpec == StoreInit /\ [][SqlNext]_vars

\* the routes that lead to records sharing an email or held under a numeric
\* id, and cleanup-duplicates, requests served one at a time, each at a
\* later time than the one before, the console followed
CleanupNext ==
    \/ \E r \in {1} : Finish(r)
    \/ \E r \in {1} : Scan(r)
    \/ \E r \in {1} : KvPostStart(r)
    \/ \E r \in {1} : KvCheck(r)
    \/ \E r \in {1} : KvWrite(r)
    \/ \E r \in {1} : SqlPost(r)
    \/ \E r \in {1} : MysqlToRedisStart(r)
    \/ \E r \in {1} : MysqlToRedisCopy(r)
    \/ \E r \in {1} : CleanupStart(r)
    \/ \E r \in {1} : CleanupFind(r)
    \/ \E r \in {1} : CleanupRemove(r)
    \/ \E r \in {1} : CleanupReassign(r)
    \/ \E r \in {1} : CleanupReassignDel(r)

CleanupSpec == WatchedInit /\ [][CleanupNext]_vars

\* the routes of /api/redis/users alone, requests overlapping
KvNext ==
    \/ \E r \in Reqs : Finish(r)
    \/ \E r \in Reqs : Scan(r)
    \/ \E r \in Reqs : KvListStart(r)
    \/ \E r \in Reqs : KvListRead(r)
    \/ \E r \in Reqs : KvGetStart(r)
    \/ \E r \in Reqs : KvGetRead(r)
    \/ \E r \in Reqs : KvPostStart(r)
    \/ \E r \in Reqs : KvCheck(r)
    \/ \E r \in Reqs : KvWrite(r)
    \/ \E r \in Reqs : KvPutStart(r)
    \/ \E r \in Reqs : KvDeleteStart(r)
    \/ \E r \in Reqs : KvExists(r)
    \/ \E r \in Reqs : KvDelete(r)

KvSpec == StoreInit /\ [][KvNext]_vars

\* the next step of the handler of request r is a call of
\* executeRedisCommand
Calls(r) ==
    \/ req[r].pc \in {"read", "exists", "del", "write"}
    \/ req[r].pc = "check"
          /\ req[r].todo \ (IF req[r].type = "kvPut" THEN {UserKey(req[r].id)}
                              ELSE {}) # {}

\* the handler is not in a call
NoCall(r) == cmd.pc = "idle" /\ ~Calls(r)

\* the call the handler made has ended
CallEnded(r) == cmd.pc = "done" /\ Calls(r)

\* the routes of /api/redis/users/:id and POST /api/redis/users in cluster
\* mode, requests served one at a time, every call of executeRedisCommand
\* followed attempt by attempt while the cluster fails and recovers
RetryNext ==
    \/ EnvChange
    \/ \E r \in {1} : NoCall(r) /\ Finish(r)
    \/ \E r \in {1} : NoCall(r) /\ Scan(r)
    \/ \E r \in {1} : NoCall(r) /\ KvGetStart(r)
    \/ \E r \in {1} : NoCall(r) /\ KvPostStart(r)
    \/ \E r \in {1} : NoCall(r) /\ KvPutStart(r)
    \/ \E r \in {1} : NoCall(r) /\ KvDeleteStart(r)
    \/ \E r \in {1} : NoCall(r) /\ KvCheck(r)
    \/ \E r \in {1} : Calls(r) /\ CmdStart
    \/ CmdSucceed
    \/ \E kind \in ErrorKinds : CmdFail(kind)
    \/ CmdBackoffDone
    \/ \E r \in {1} : CallEnded(r) /\ KvGetRead(r)
    \/ \E r \in {1} : CallEnded(r) /\ KvCheck(r)
    \/ \E r \in {1} : CallEnded(r) /\ KvWrite(r)
    \/ \E r \in {1} : CallEnded(r) /\ KvExists(r)
    \/ \E r \in {1} : CallEnded(r) /\ KvDelete(r)

\* the server has finished its start-up in cluster mode, the console followed
RetryInit == LoggedInit /\ IsCluster

RetrySpec == RetryInit /\ [][RetryNext]_vars

\* the smoke test run by POST /api/redis/test and the routes that read all
\* user records, requests overlapping
TestNext ==
    \/ \E r \in Reqs : Finish(r)
    \/ \E r \in Reqs : Scan(r)
    \/ \E r \in Reqs : KvListStart(r)
    \/ \E r \in Reqs : KvListRead(r)
    \/ \E r \in Reqs : RedisToMysqlStart(r)
    \/ \E r \in Reqs : RedisToMysqlRead(r)
    \/ \E r \in Reqs : RedisToMysqlUpsert(r)
    \/ \E r \in Reqs : RedisTestStart(r)
    \/ \E r \in Reqs : RedisTestWrite(r)
    \/ \E r \in Reqs : RedisTestCleanup(r)

TestSpec == StoreInit /\ [][TestNext]_vars

\* POST /api/redis/users alone, requests overlapping
PostNext ==
    \/ \E r \in Reqs : Finish(r)
    \/ \E r \in Reqs : Scan(r)
    \/ \E r \in Reqs : KvPostStart(r)
    \/ \E r \in Reqs : KvCheck(r)
    \/ \E r \in Reqs : KvWrite(r)

PostSpec == StoreInit /\ [][PostNext]_vars

\* the server from the moment it listens: start-up, connection events, a
\* reconnect request, and GET /api/health requests one at a time
HealthNext ==
    \/ EnvChange
    \/ \E i \in InitIds : InitDiagnose(i)
    \/ \E i \in InitIds : WaitRound(i)
    \/ \E i \in InitIds : InitConnect(i)
    \/ \E c \in ConnIds : CheckStability(c)
    \/ \E i \in InitIds : SmokeOp(i)
    \/ \E i \in InitIds : InitBackoffDone(i)
    \/ BootContinue
    \/ FallbackOp
    \/ BootServe
    \/ \E c \in ConnIds : ConnReady(c)
    \/ \E c \in ConnIds : ConnClose(c)
    \/ \E c \in ConnIds : ConnEnd(c)
    \/ \E c \in ConnIds : ConnError(c)
    \/ \E c \in ConnIds : ConnectTimeout(c)
    \/ \E r \in {"r1"} : StartReconnect(r)
    \/ \E r \in {"r1"} : FinishReconnect(r)
    \/ \E r \in {1} : HealthStart(r)
    \/ \E r \in {1} : HealthPing(r)
    \/ \E r \in {1} : Finish(r)

HealthSpec == Init /\ [][HealthNext]_vars

\* ============================================================ properties
\* a step in which executeRedisCommand invokes the command function
Invokes == cmd'.invocations > cmd.invocations

\* C1: executeRedisCommand called while isRedisReady() is false fails at once
\* with the not-ready error, without invoking the command function and
\* without changing the adapter state
C1_RefusedWhenNotReady ==
    [][(cmd.pc = "idle" /\ cmd'.pc # "idle" /\ ~isRedisReady)
        => /\ cmd'.pc = "done"
           /\ cmd'.result = "NotReady"
           /\ cmd'.invocations = 0
           /\ cmd'.waits = 0
           /\ UNCHANGED <<redisCluster, isRedisOperational, conn>>]_vars

\* a call was refused although a connection was held and reported ready
C1_Witness ==
    /\ cmd.pc = "done"
    /\ cmd.result = "NotReady"
    /\ redisCluster # NULL
    /\ conn[redisCluster].status = "ready"

\* an error, close/reconnecting or end event on the held cluster connection
LiveConnEvent ==
    \E c \in ConnIds :
        /\ c = redisCluster
        /\ conn[c].kind = "cluster"
        /\ conn[c].listening
        /\ ConnError(c) \/ ConnClose(c) \/ ConnEnd(c)

\* C2: after an error, close, end or reconnecting event on the live cluster
\* connection the adapter is not ready, and no command function is invoked
\* while the adapter is not ready
C2_NoInvocationWhileDegraded ==
    [][/\ LiveConnEvent => ~isRedisReady'
       /\ Invokes => isRedisReady]_vars

C4_RetryOnlyAfterReconnect ==
    [][(Invokes /\ cmd.lastErr = "topology") => isRedisReady]_vars

\* C5: a call invokes the command function at most maxRetries times, each
\* wait is followed by an invocation (no wait after the last attempt), an
\* error of the command function is propagated only by attempt maxRetries,
\* and every step of a call in progress is one more invocation or one more
\* wait, so that the call ends after at most 2 * maxRetries - 1 steps
C5_BoundedRetries ==
    /\ [](/\ cmd.invocations <= maxRetries
          /\ cmd.waits <= cmd.invocations
          /\ cmd.pc = "try" => cmd.waits = cmd.invocations
          /\ cmd.pc = "backoff" => cmd.waits = cmd.invocations - 1
          /\ (cmd.pc = "done" /\ cmd.result # "NotReady") =>
                cmd.waits = cmd.invocations - 1
          /\ (cmd.pc = "done" /\ cmd.result = "error") =>
                cmd.invocations = maxRetries
          /\ (cmd.pc = "done" /\ cmd.result = "ok") => cmd.invocations >= 1)
    /\ [][(cmd.pc \in {"try", "backoff"} /\ cmd' # cmd) =>
             cmd'.invocations + cmd'.waits = cmd.invocations + cmd.waits + 1]_vars

\* the third attempt succeeded after two failures
C5_Witness ==
    /\ cmd.pc = "done"
    /\ cmd.result = "ok"
    /\ cmd.invocations = maxRetries
    /\ cmd.waits = maxRetries - 1

\* C6: whenever the adapter reports READY, the held connection passed the
\* stability checks and, after them, the full smoke test
C6_ReadyImpliesVetted ==
    isRedisReady =>
        /\ conn[redisCluster].stableOk
        /\ conn[redisCluster].tested = AllSmokeTests

\* C7: after the startup initRedis has failed, the adapter reports not
\* ready until a reconnect is requested
C7_FailedUntilReconnect ==
    (boot.initFailed /\ ~hist.reconnectRequested) => ~isRedisReady

\* C8: when a reconnect is requested while the adapter is DEGRADED and the
\* cluster is healthy, and the cluster stays healthy, the adapter eventually
\* reports READY
C8_ReconnectReachesReady ==
    [](hist.degradedAtRequest => <>(isRedisReady \/ cluster # "up"))

\* the reconnect requested in DEGRADED has made the adapter READY
C8_Witness ==
    /\ hist.degradedAtRequest
    /\ init["r1"].pc = "done"
    /\ cluster = "up"
    /\ isRedisReady

\* C9: the process never exits through the uncaughtException handler
C9_NeverExits == ~exited

\* C10: waitForClusterReady runs a polling round only while the elapsed
\* time is below the maximum, so it runs at most MaxWaitTicks rounds; when
\* it gives up initRedis fails without having opened a cluster connection
C10_CoverageWaitTerminates ==
    \A i \in InitIds :
        /\ init[i].rounds <= MaxWaitTicks
        /\ init[i].pc = "waiting" => init[i].opened = 0
        /\ (init[i].pc = "failed" /\ init[i].failure = "coverage") =>
              /\ init[i].opened = 0
              /\ init[i].attempt = 0
              /\ i = "boot" /\ boot.pc = "initRedis" =>
                    (init[i].elapsed >= MaxWaitTicks /\ init[i].rounds >= 1
                     /\ redisCluster = NULL)
              /\ i # "boot" =>
                    (init[i].elapsed >= MaxWaitTicks /\ init[i].rounds >= 1)

\* a reconnect gave up waiting for slot coverage after the most rounds
C10_Witness ==
    /\ init["r1"].pc = "failed"
    /\ init["r1"].failure = "coverage"
    /\ init["r1"].rounds = MaxWaitTicks

\* C11: a run of initRedis makes at most maxAttempts connection attempts;
\* after failed attempt number n < maxAttempts it waits n * 2000 ms; after
\* the last one it does not wait but fails, and at that moment the adapter
\* holds no connection and reports not ready
C11_BoundedConnectAttempts ==
    \A i \in InitIds :
        /\ init[i].attempt <= maxAttempts
        /\ init[i].opened <= maxAttempts
        /\ init[i].opened <= init[i].attempt
        /\ init[i].pc = "backoff" =>
              /\ init[i].attempt < maxAttempts
              /\ init[i].opened = init[i].attempt
              /\ init[i].delay = init[i].attempt * 2000
        /\ (/\ init[i].pc = "failed"
            /\ init[i].failure = "connect"
            /\ i = "boot" => boot.pc = "initRedis") =>
              /\ init[i].attempt = maxAttempts
              /\ init[i].opened = maxAttempts
              /\ init[i].delay = 0
              /\ redisCluster = NULL
              /\ ~isRedisOperational
              /\ ~isRedisReady

\* a reconnect has failed after its third attempt
C11_Witness ==
    /\ init["r1"].pc = "failed"
    /\ init["r1"].failure = "connect"
    /\ init["r1"].attempt = maxAttempts
    /\ init["r1"].opened = maxAttempts

\* ------------------------------------------------ getAllKeysFromCluster
\* the keys of the user records the masters hold: what 'user:*' stands for
UserKeys == {UserKey(id) : id \in {i \in KvIds : kv[i] # NoRec}}

\* C12 as stated: whenever the key set does not change during the call (the
\* calling request is the only one in flight), the keys returned are exactly
\* the stored keys that match the pattern.
C12_ExactWhenKeySetUnchanged ==
    [][\A r \in Reqs :
         (req[r].pc = "scan" /\ req'[r].pc \in PostScan /\ req[r].alone)
            => req'[r].todo = UserKeys]_vars

\* C12: when the key set does not change during the call and every master
\* has answered its scan (the adapter is ready, in cluster mode, and no
\* master was skipped or failed), the keys returned are exactly the stored
\* keys that match the pattern: every one of them and no other key.
C12_ExactWhenAllMastersAnswer ==
    \A r \in Reqs :
        (req[r].pc \in PostScan /\ req[r].alone /\ req[r].answered = Masters)
           => req[r].todo = UserKeys

\* every master answered, and keys of two masters were returned
C12_Witness ==
    \E r \in Reqs :
        /\ req[r].pc \in PostScan /\ req[r].alone /\ req[r].answered = Masters
        /\ \E k1, k2 \in req[r].todo : Owner(k1) # Owner(k2)

\* the user keys master m holds
UserKeysOn(m) == {k \in UserKeys : Owner(k) = m}

\* C13: a master that does not answer never fails the enumeration.  Every
\* step of getAllKeysFromCluster goes on to the next master or returns; it
\* keeps the keys collected so far, adds every user key of a master that
\* answers and adds only keys that are stored at that moment.  When the call
\* has returned to a request that is alone, the result holds every user key
\* of the masters that answered and is a subset of the stored keys.
C13_PartialResults ==
    /\ [](\A r \in Reqs :
            (req[r].pc \in PostScan /\ req[r].alone)
               => /\ req[r].todo \subseteq UserKeys
                  /\ \A m \in req[r].answered : UserKeysOn(m) \subseteq req[r].todo)
    /\ [][\A r \in Reqs :
            (req[r].pc = "scan" /\ req'[r] # req[r])
               => /\ req'[r].pc \in {"scan"} \cup PostScan
                  /\ req[r].todo \subseteq req'[r].todo
                  /\ (req'[r].todo \ req[r].todo) \subseteq UserKeys
                  /\ \A m \in req'[r].answered \ req[r].answered :
                        UserKeysOn(m) \subseteq req'[r].todo]_vars

\* one master answered and its key was returned, the other one holds a key
\* too and was skipped
C13_Witness ==
    \E r \in Reqs :
        /\ req[r].pc \in PostScan /\ req[r].alone /\ IsCluster
        /\ \E m \in Masters :
             /\ req[r].answered = {m}
             /\ req[r].todo # {}
             /\ \E o \in Masters \ {m} : UserKeysOn(o) # {}

\* ------------------------------------------------ unique emails
\* the ids of the key-value records that hold the email
KvHolders(email) == {i \in KvIds : kv[i] # NoRec /\ kv[i].email = email}

\* C14: with the requests served one at a time, no two key-value records
\* share an email.
C14_UniqueEmailsSerial == \A e \in Emails : Cardinality(KvHolders(e)) <= 1

\* both POST /api/redis/users requests have answered 201 for the same email
BothCreated ==
    /\ \A r \in Reqs : req[r].pc = "done" /\ req[r].type = "kvPost" /\ req[r].resp = 201
    /\ req[1].rec.email = req[2].rec.email

\* C15: when two overlapping POST /api/redis/users requests with the same
\* email have both returned 201, they left two records with different ids
\* that both hold that email.
C15_BothCreatedLeavesTwoRecords ==
    BothCreated
       => /\ req[1].id # req[2].id
          /\ {req[1].id, req[2].id} \subseteq KvHolders(req[1].rec.email)

\* the race has happened: both returned 201 and the email is held twice
C15_Witness ==
    /\ BothCreated
    /\ Cardinality(KvHolders(req[1].rec.email)) = 2

\* ------------------------------------------------ the duplicate check
\* request r has answered, was alone all the while, and a record other than
\* its own holds the email it carries: the email was held when it arrived
AnsweredHeldEmail(r, type) ==
    /\ req[r].pc = "done" /\ req[r].type = type /\ req[r].alone
    /\ KvHolders(req[r].rec.email) \ {req[r].id} # {}

\* the request was not turned away for unavailability (503) or failure (500)
Served(r) == req[r].resp \notin {500, 503}

\* C16: with no other request in flight, a POST /api/redis/users whose email
\* an existing record holds, when it is served at all, returns 409 and adds
\* no record.
C16_DuplicatePostRefused ==
    \A r \in Reqs :
        (AnsweredHeldEmail(r, "kvPost") /\ Served(r))
           => req[r].resp = 409 /\ kv[req[r].id] = NoRec

\* ------------------------------------------------ the relational store
\* the rows that hold the email
SqlHolders(email) == {i \in SqlIds : sql.rows[i].email = email}

\* the POST or PUT of /api/mysql/users that arrives as request r collides:
\* a row other than the one it addresses holds its email (a PUT addresses
\* an existing row)
Collides(r) ==
    IF req'[r].type = "sqlPost"
    THEN SqlHolders(req'[r].rec.email) # {}
    ELSE /\ sql.rows[req'[r].id.n] # NoRec
         /\ SqlHolders(req'[r].rec.email) \ {req'[r].id.n} # {}

\* C17: under any interleaving of POST, PUT and redis-to-mysql no two rows
\* of the relational store hold the same email; a POST or PUT that collides
\* returns 409 and leaves the table as it was, and only such a request
\* returns 409.
C17_SqlEmailsUnique ==
    /\ [](\A e \in Emails : Cardinality(SqlHolders(e)) <= 1)
    /\ [][\A r \in Reqs :
            (req[r].pc = "idle" /\ req'[r].type \in {"sqlPost", "sqlPut"})
               => /\ Collides(r) => (req'[r].resp = 409 /\ sql' = sql)
                  /\ req'[r].resp = 409 => Collides(r)]_vars

\* a POST collided with the row a redis-to-mysql still in flight had
\* inserted, and was answered 409
C17_Witness ==
    /\ \E r \in Reqs : req[r].pc = "done" /\ req[r].type = "sqlPost" /\ req[r].resp = 409
    /\ \E r \in Reqs : req[r].type = "redisToMysql" /\ InFlight(r)

\* C19: with no other request in flight, a PUT /api/redis/users/:id on an
\* existing record, when it is served at all, returns 409 and writes nothing
\* if a different record holds its email, and otherwise (its own email
\* included) returns 200 and the record holds the fields it carried.
C19_DuplicatePutRefused ==
    \A r \in Reqs :
        (req[r].pc = "done" /\ req[r].type = "kvPut" /\ req[r].alone
            /\ Served(r) /\ req[r].resp # 404)
           => IF KvHolders(req[r].rec.email) \ {req[r].id} # {}
              THEN req[r].resp = 409
              ELSE /\ req[r].resp = 200
                   /\ kv[req[r].id].name = req[r].rec.name
                   /\ kv[req[r].id].email = req[r].rec.email

\* ------------------------------------------------ absent ids
\* request r is answered in this step
Answers(r) == req[r].pc # "done" /\ req'[r].pc = "done"

\* the id request r addresses holds no record in the store of its route
AbsentKv(r) == kv[req[r].id] = NoRec
AbsentSql(r) == sql.rows[req'[r].id.n] = NoRec

C20_DeletedIsGone ==
    [][\A r \in Reqs :
         /\ (req'[r].type = "kvDelete" /\ Answers(r) /\ req'[r].resp = 200)
               => kv'[req[r].id] = NoRec
         /\ (req'[r].type = "sqlDelete" /\ Answers(r) /\ req'[r].resp = 200)
               => ~AbsentSql(r) /\ sql'.rows[req'[r].id.n] = NoRec
         /\ (req[r].type = "kvGet" /\ req[r].pc = "read" /\ Answers(r)
                /\ hist.deleted = DeletedKv(req[r].id))
               => req'[r].resp \in {404, 500}
         /\ (req'[r].type = "sqlGet" /\ Answers(r)
                /\ hist.deleted = DeletedSql(req'[r].id.n))
               => req'[r].resp = 404
         /\ (req[r].type = "kvDelete" /\ req[r].pc = "exists"
                /\ req'[r].pc # "exists" /\ AbsentKv(r))
               => /\ req'[r].pc = "done" /\ req'[r].resp \in {404, 500}
                  /\ kv' = kv /\ sql' = sql
         /\ (req'[r].type = "sqlDelete" /\ Answers(r) /\ AbsentSql(r))
               => req'[r].resp = 404 /\ kv' = kv /\ sql' = sql
         /\ (req'[r].type \in {"kvDelete", "sqlDelete"} /\ Answers(r)
                /\ req'[r].resp = 404)
               => kv' = kv /\ sql' = sql]_vars

\* a GET on the id the last DELETE answered 200 for has answered 404
C20_Witness ==
    \E r \in Reqs :
        /\ req[r].pc = "done" /\ req[r].type = "kvGet" /\ req[r].resp = 404
        /\ hist.deleted = DeletedKv(req[r].id)

\* ------------------------------------------------ POST, then GET
\* a field that is optional reads the same as it was sent: a phone or address
\* the request left out reads as the default of the store, the empty string
\* (key-value store) or null (relational store)
SameOptional(sent, got) == IF sent = None THEN got \in {"", None} ELSE got = sent

\* the record a GET returned carries the fields of the body a POST sent
SameFields(body, got) ==
    /\ got.name = body.name
    /\ got.email = body.email
    /\ SameOptional(body.phone, got.phone)

\* request r is a GET by the id of the POST that was answered 201 just
\* before it, and has been answered
GetOfPosted(r) ==
    /\ req[r].pc = "done"
    /\ \/ req[r].type = "kvGet" /\ hist.posted.store = "kv"
       \/ req[r].type = "sqlGet" /\ hist.posted.store = "sql"
    /\ req[r].id = hist.posted.id

\* C21: for every request body with a name and an email that POST accepts
\* with 201, a GET by the returned id that follows it finds the record (it
\* never answers 404; in the key-value store 500 or 503 when the command
\* fails or the adapter is not ready) and, answered 200, returns the name,
\* email, phone and address of the body, in both stores.
C21_PostThenGet ==
    \A r \in Reqs :
        GetOfPosted(r)
           => /\ req[r].resp \in {200, 500, 503}
              /\ req[r].type = "sqlGet" => req[r].resp = 200
              /\ req[r].resp = 200 => SameFields(hist.posted.body, req[r].rec)

\* a GET has returned the record of a POST /api/redis/users that left the
\* phone out
C21_Witness ==
    \E r \in Reqs :
        /\ GetOfPosted(r) /\ req[r].type = "kvGet" /\ req[r].resp = 200
        /\ hist.posted.body.phone = None

\* ------------------------------------------------ created_at
\* C22: every record has the created_at it was given when it was created:
\* no step of PUT (either store), mysql-to-redis, redis-to-mysql or
\* cleanup-duplicates changes the created_at of a record that exists before
\* and after the step, and the record the id reassignment writes under the
\* new id has the created_at of the record under the old id.
C22_CreatedAtKept ==
    /\ [](/\ \A id \in KvIds : kv[id] # NoRec => kv[id].at \in 1..hist.clock
          /\ \A i \in SqlIds : sql.rows[i] # NoRec => sql.rows[i].at \in 1..hist.clock)
    /\ [][/\ \A id \in KvIds :
              (kv[id] # NoRec /\ kv'[id] # NoRec) => kv'[id].at = kv[id].at
          /\ \A i \in SqlIds :
              (sql.rows[i] # NoRec /\ sql'.rows[i] # NoRec)
                 => sql'.rows[i].at = sql.rows[i].at
          /\ \A r \in Reqs :
              (req[r].pc = "reassign" /\ req'[r].pc = "reassignDel")
                 => \E new \in Uuids :
                      /\ kv[new] = NoRec /\ kv'[new] # NoRec
                      /\ kv'[new].at = kv[req'[r].id].at]_vars

\* a PUT /api/redis/users/:id was answered 200 on a record created at an
\* earlier time
C22_Witness ==
    \E r \in Reqs :
        /\ req[r].pc = "done" /\ req[r].type = "kvPut" /\ req[r].resp = 200
        /\ kv[req[r].id] # NoRec
        /\ kv[req[r].id].at < hist.clock

\* ------------------------------------------------ bulk copy
\* the record copies the row: name, email and the optional field, a null
\* copied as the empty string
CopyMatches(rec, row) ==
    /\ rec.name = row.name
    /\ rec.email = row.email
    /\ rec.phone = (IF row.phone = None THEN "" ELSE row.phone)

\* C23: when POST /api/mysql-to-redis that arrived at an empty key-value
\* store has answered with success = total (no record failed), total is the
\* number N of relational rows, the key-value store holds exactly N records,
\* every row has a record that copies it and every record copies a row
C23_CopyOnEmpty ==
    \A r \in Reqs :
        (/\ req[r].pc = "done" /\ req[r].type = "mysqlToRedis" /\ req[r].resp = 200
         /\ hist.blank /\ req[r].success = req[r].total)
        => LET rows == {i \in SqlIds : sql.rows[i] # NoRec}
               recs == {id \in KvIds : kv[id] # NoRec}
           IN /\ req[r].total = Cardinality(rows)
              /\ Cardinality(recs) = Cardinality(rows)
              /\ \A i \in rows : \E id \in recs : CopyMatches(kv[id], sql.rows[i])
              /\ \A id \in recs : \E i \in rows : CopyMatches(kv[id], sql.rows[i])

\* a copy of two rows, one of them with a null phone, answered with
\* success = total = 2 on a key-value store that was empty
C23_Witness ==
    \E r \in Reqs :
        /\ req[r].pc = "done" /\ req[r].type = "mysqlToRedis" /\ req[r].resp = 200
        /\ hist.blank /\ req[r].success = 2 /\ req[r].total = 2
        /\ \E i \in SqlIds : sql.rows[i] # NoRec /\ sql.rows[i].phone = None

\* C24: both bulk-copy loops take every source record exactly once and go
\* on after a failure: a turn of the loop removes one record from those
\* still to do, leaves the handler in the loop, and either counts a success
\* and has written the record or counts no success and has written nothing;
\* the response is sent only when no record is left.  success never
\* exceeds total, it counts the records written, errors of redis-to-mysql
\* counts the records whose copy failed, and success + errors <= total
C24_BatchGoesOn ==
    /\ [](\A r \in Reqs :
            /\ req[r].type = "mysqlToRedis"
                 => req[r].success + Cardinality(req[r].rows) <= req[r].total
            /\ (req[r].type = "redisToMysql" /\ req[r].pc \in {"copy", "upsert", "done"})
                 => req[r].success + req[r].errors + Cardinality(req[r].todo)
                      + (IF req[r].pc = "upsert" THEN 1 ELSE 0) <= req[r].total)
    /\ [][\A r \in Reqs :
            /\ (req[r].type = "mysqlToRedis" /\ req[r].pc = "copyIn")
                 => /\ req'[r].total = req[r].total
                    /\ IF req[r].rows = {}
                       THEN /\ req'[r].pc = "done" /\ req'[r].resp = 200
                            /\ req'[r].success = req[r].success
                       ELSE /\ req'[r].pc = "copyIn"
                            /\ \E u \in req[r].rows :
                                 /\ req'[r].rows = req[r].rows \ {u}
                                 /\ \/ /\ req'[r].success = req[r].success + 1
                                       /\ CopyMatches(kv'[u.id], u.rec)
                                    \/ /\ req'[r].success = req[r].success
                                       /\ kv' = kv
            /\ (req[r].type = "redisToMysql" /\ req[r].pc = "copy")
                 => /\ req'[r].total = req[r].total
                    /\ req'[r].success = req[r].success
                    /\ sql' = sql
                    /\ IF req[r].todo = {}
                       THEN /\ req'[r].pc = "done" /\ req'[r].resp = 200
                            /\ req'[r].errors = req[r].errors
                       ELSE \E k \in req[r].todo :
                              /\ req'[r].todo = req[r].todo \ {k}
                              /\ \/ /\ req'[r].pc = "upsert"
                                    /\ req'[r].rec = kv[k[2]]
                                    /\ req'[r].errors = req[r].errors
                                 \/ /\ req'[r].pc = "copy"
                                    /\ req'[r].errors = req[r].errors + 1
                                 \/ /\ req'[r].pc = "copy"
                                    /\ req'[r].errors = req[r].errors
                                    /\ kv[k[2]] = NoRec
            /\ (req[r].type = "redisToMysql" /\ req[r].pc = "upsert")
                 => /\ req'[r].pc = "copy"
                    /\ req'[r].total = req[r].total
                    /\ req'[r].todo = req[r].todo
                    /\ \/ /\ req'[r].success = req[r].success + 1
                          /\ req'[r].errors = req[r].errors
                          /\ \E i \in SqlIds :
                               /\ sql'.rows[i].email = req[r].rec.email
                               /\ sql'.rows[i].name = req[r].rec.name
                               /\ sql'.rows[i].phone = req[r].rec.phone
                       \/ /\ req'[r].success = req[r].success
                          /\ req'[r].errors = req[r].errors + 1
                          /\ sql' = sql]_vars

\* a copy of two rows has answered: the first row failed and the second
\* was written
C24_Witness ==
    \E r \in Reqs :
        /\ req[r].pc = "done" /\ req[r].type = "mysqlToRedis" /\ req[r].resp = 200
        /\ req[r].total = 2 /\ req[r].success = 1
        /\ kv[NumId(1)] = NoRec /\ kv[NumId(2)] # NoRec

\* ------------------------------------------------ cleanup-duplicates
\* the emails of the records of the key-value store
KvEmails(store) == {store[id].email : id \in {i \in KvIds : store[i] # NoRec}}

\* one record per email, none under an id made of digits
Cleaned ==
    /\ \A i, j \in KvIds :
         (kv[i] # NoRec /\ kv[j] # NoRec /\ kv[i].email = kv[j].email) => i = j
    /\ \A i \in KvIds : kv[i] # NoRec => ~IsNumeric(i)

GuardedTypes ==
    {"kvList", "kvGet", "kvPost", "kvPut", "kvDelete",
     "mysqlToRedis", "redisToMysql", "cleanup"}

\* C26: a request of a /api/redis/users route, of a bulk-copy route or of
\* cleanup-duplicates that arrives while the adapter is not ready is
\* answered 503 in the step of its arrival: neither store is changed, no
\* row, key or record has been read for it and no command is under way
C26_NotReadyRefused ==
    [][\A r \in Reqs :
         (/\ req[r].pc = "idle" /\ req'[r].pc # "idle"
          /\ req'[r].type \in GuardedTypes
          /\ ~isRedisReady)
         => /\ req'[r].pc = "done" /\ req'[r].resp = 503
            /\ kv' = kv /\ sql' = sql
            /\ req'[r].rows = {} /\ req'[r].todo = {} /\ req'[r].total = 0
            /\ ~req'[r].sent
            /\ cmd'.pc = "idle"]_vars

\* POST /api/mysql-to-redis was answered 503 while the relational store
\* holds a row and the key-value store holds none
C26_Witness ==
    \E r \in Reqs :
        /\ req[r].pc = "done" /\ req[r].type = "mysqlToRedis" /\ req[r].resp = 503
        /\ \E i \in SqlIds : sql.rows[i] # NoRec
        /\ KvEmpty

\* ------------------------------------------------ command failures
\* C27: a request one of whose key-value commands failed with its retries
\* exhausted is answered 503
C27_ExhaustedAnswers503 ==
    \A r \in Reqs :
        (req[r].pc = "done" /\ "error" \in req[r].log) => req[r].resp = 503

\* the statuses a handler answers when nothing fails
Unfailed(type) ==
    CASE type = "kvGet" -> {200, 404}
      [] type = "kvPost" -> {201, 409}
      [] type = "kvPut" -> {200, 404, 409}
      [] type = "kvDelete" -> {200, 404}
      [] OTHER -> {200}

\* C28: when the last call of executeRedisCommand of a request returns a
\* result, after however many failed attempts, and no earlier call of the
\* request was refused or failed, the request is answered with a status of
\* its failure-free run, never with 500 or 503; GET answers 200 with the
\* record exactly when the record is there
C28_RetriedAnswersSuccess ==
    [][\A r \in Reqs :
         (/\ Calls(r) /\ cmd.pc = "done" /\ cmd.result = "ok"
          /\ req[r].log \subseteq {"retried", "skipped"}
          /\ req'[r].pc = "done")
         => /\ req'[r].resp \in Unfailed(req[r].type)
            /\ req[r].type = "kvGet"
                 => /\ req'[r].resp = 200 <=> kv[req[r].id] # NoRec
                    /\ req'[r].resp = 200 => req'[r].rec = kv[req[r].id]]_vars

\* a PUT was answered 200 after an attempt of one of its commands had
\* failed and a later attempt succeeded
C28_Witness ==
    \E r \in Reqs :
        /\ req[r].pc = "done" /\ req[r].type = "kvPut" /\ req[r].resp = 200
        /\ "retried" \in req[r].log
        /\ req[r].log \subseteq {"retried", "skipped"}

\* ------------------------------------------------ the two stores
\* the request whose handler takes the step (the arrival of a request also
\* tells the others in flight that they are not alone)
Steps(r) == [req'[r] EXCEPT !.alone = req[r].alone] # req[r]

\* the route of the request whose handler takes the step
RouteOf(r) == IF req[r].pc = "idle" THEN req'[r].type ELSE req[r].type

\* C29: no step of a /api/mysql/users request changes the key-value store,
\* no step of a /api/redis/users request or of cleanup-duplicates changes
\* the relational store, mysql-to-redis leaves the relational store and
\* redis-to-mysql leaves the key-value store as they are
C29_StoresIndependent ==
    [][\A r \in Reqs :
         Steps(r) =>
            /\ RouteOf(r) \in {"sqlGet", "sqlPost", "sqlPut", "sqlDelete"} => kv' = kv
            /\ RouteOf(r) \in {"kvList", "kvGet", "kvPost", "kvPut", "kvDelete", "cleanup"}
                 => sql' = sql
            /\ RouteOf(r) = "mysqlToRedis" => sql' = sql
            /\ RouteOf(r) = "redisToMysql" => kv' = kv]_vars

\* DELETE /api/mysql/users/:id was answered 200 and the copy of the row is
\* still in the key-value store
C29_Witness ==
    \E r \in Reqs :
        /\ req[r].pc = "done" /\ req[r].type = "sqlDelete" /\ req[r].resp = 200
        /\ kv[req[r].id] # NoRec

\* ------------------------------------------------ one connection
\* the connection is open or opening
Live(c) == conn[c].status \in {"connecting", "ready", "reconnecting"}

\* C30: every connection that is open or opening is the one the
\* module-level handle holds, so at most one is live; and in every step of
\* initRedis that takes a live connection out of the handle (setting it to
\* null or to a new connection) that connection ends the step disconnected
\* and without listeners (or is gone: the new connection object has taken
\* its place in the model)
C30_OneLiveConnection ==
    /\ [](\A c \in ConnIds : Live(c) => c = redisCluster)
    /\ [][\A c \in ConnIds :
            (/\ c = redisCluster /\ Live(c)
             /\ init' # init
             /\ \/ redisCluster' # c
                \/ \E i \in InitIds : init'[i].opened > init[i].opened)
            => \/ conn'[c].status \in {"end", "free"} /\ ~conn'[c].listening
               \/ /\ redisCluster' = c
                  /\ conn[c].promise # "pending"
                  /\ conn'[c].status = "connecting"
                  /\ conn'[c].promise = "pending"]_vars

\* two runs of initRedis are under way: the connection the first run opened
\* has been replaced by the connection of the second and is disconnected,
\* while the first run still waits for it
C30_Witness ==
    /\ init["r1"].pc = "awaitStable" /\ init["r2"].pc = "awaitStable"
    /\ redisCluster # NULL /\ conn[redisCluster].owner = "r2" /\ Live(redisCluster)
    /\ \E c \in ConnIds : conn[c].owner = "r1" /\ conn[c].status = "end"

\* ------------------------------------------------ health
\* C31: every GET /api/health that has been answered by the listening
\* server was answered 200
C31_HealthAlways200 ==
    \A r \in Reqs :
        (req[r].pc = "done" /\ req[r].type = "health") => req[r].resp = 200

\* ------------------------------------------------ stability polling
\* C32: a connection attempt is declared stable (its promise resolved by
\* checkStability) only if the connection was ready without interruption
\* between the polls that were counted: no close, reconnecting or end event
\* since the first of them
C32_StableOnlyIfUninterrupted ==
    [][\A c \in ConnIds :
         (/\ conn[c].kind = "cluster"
          /\ conn[c].promise = "pending" /\ conn'[c].promise = "resolved")
         => ~conn[c].broken]_vars

\* ------------------------------------------------ discovery before connecting
\* C33: the first connection attempt of a run of initRedis is started only
\* after a discovery pass in which every configured seed node answered the
\* ping with cluster state OK and the slot count reached 16384
C33_ConnectsAfterFullRound ==
    [][\A i \in InitIds :
         (/\ init[i].pc = "connect" /\ init[i].attempt = 1
          /\ init'[i].pc = "awaitStable")
         => init[i].allAnswered]_vars

\* ------------------------------------------------------------ slot counting
\* the slots listed by the lines of masters not marked failed
RECURSIVE OwnedSlots(_)
OwnedSlots(reply) ==
    IF reply = <<>> THEN 0
    ELSE (IF MasterNotFailed(Head(reply)) THEN SlotTokensAdd(Head(reply).slots) ELSE 0)
         + OwnedSlots(Tail(reply))

\* C34: the slot total counted from a CLUSTER NODES reply is the number of
\* slots owned by masters not marked failed, and it reaches 16384 only when
\* all 16384 slots are owned by such masters
C34_CountIsOwnedSlots ==
    hist.parsed =>
        /\ hist.counted = OwnedSlots(hist.reply)
        /\ hist.counted >= TotalSlots => OwnedSlots(hist.reply) = TotalSlots

\* ------------------------------------------------ raising the readiness flag
\* a run of initRedis passes its last smoke test, or initRedisFallback its
\* last test
InitCompletes ==
    \/ \E i \in InitIds : init[i].pc = "smoke" /\ init'[i].pc = "done"
    \/ boot.pc = "fallbackTest" /\ ~boot.fallbackOk /\ boot'.fallbackOk

\* C35: the flag isRedisOperational is raised only by the step that completes
\* initRedis or initRedisFallback after the smoke test, and an adapter that
\* is not ready becomes ready only by such a step
C35_RaisedOnlyByInit ==
    [][((~isRedisOperational /\ isRedisOperational') \/ (~isRedisReady /\ isRedisReady'))
         => InitCompletes]_vars

\* ------------------------------------------------ failures of other kinds
\* C36: a command attempt that fails with an error of another kind than
\* 'Connection is closed' or 'CLUSTERDOWN' while the held connection is
\* still 'ready' leaves the readiness flag and the connection handle as
\* they are
C36_OtherFailureKeepsFlag ==
    [][(/\ cmd.pc = "try"
        /\ cmd'.pc \in {"backoff", "done"} /\ cmd'.result # "ok"
        /\ cmd'.lastErr = "other"
        /\ redisCluster # NULL /\ conn[redisCluster].status = "ready")
       => (/\ isRedisOperational' = isRedisOperational
           /\ redisCluster' = redisCluster)]_vars

\* an attempt has failed with another error on a ready connection, the
\* call waits for its next attempt and the adapter is still ready
C36_Witness ==
    /\ cmd.pc = "backoff"
    /\ cmd.lastErr = "other"
    /\ isRedisReady

\* ------------------------------------------------ PUT and DELETE overlapping
\* C37: PUT /api/redis/users/:id never creates a record: the key of an id
\* that is absent, as after a DELETE that answered 200 while the PUT was in
\* flight, is still absent after the write of the PUT
C37_PutNeverCreates ==
    [][\A r \in Reqs :
         (/\ req[r].type = "kvPut" /\ req[r].pc = "write" /\ req'[r].pc = "done"
          /\ kv[req[r].id] = NoRec)
         => kv'[req[r].id] = NoRec]_vars

\* ------------------------------------------------ the smoke test's record
\* C38: the record the smoke test writes under user:test-<uuid> is never
\* among the users GET /api/redis/users has read and never copied to the
\* relational store by redis-to-mysql
C38_TestRecordUnseen ==
    /\ \A r \in Reqs : \A row \in req[r].rows : row.id # TestId
    /\ \A r \in Reqs : req[r].type = "redisToMysql" => req[r].rec # TestUserRec
    /\ \A i \in SqlIds : sql.rows[i].email # TestUserRec.email

\* ------------------------------------------------ cleanup keeps every email
\* C39: with no other request in flight, no step of cleanup-duplicates
\* removes the last record that holds an email, whichever of its commands
\* fail: every email held before the step is held after it
C39_EmailsSurvive ==
    [][\A r \in Reqs :
         (req[r].type = "cleanup" /\ req[r].alone)
            => KvEmails(kv) \subseteq KvEmails(kv')]_vars

\* cleanup-duplicates has answered after a command of it failed: it found
\* one record, under a numeric id, wrote it under a new id, and the del of
\* the old key failed
C39_Witness ==
    \E r \in Reqs :
        /\ req[r].pc = "done" /\ req[r].type = "cleanup" /\ req[r].resp = 200
        /\ req[r].alone /\ "error" \in req[r].log /\ req[r].total = 1
        /\ Cardinality({i \in KvIds : kv[i] # NoRec}) = 2
        /\ Cardinality(KvEmails(kv)) = 1

====
